---- MODULE Spec2Model ----
(***************************************************************************)
(* Model of the identity vault and the end-to-end message encryption layer *)
(* of the secure-chat front-end:                                           *)
(*   src/src/utils/crypto.ts   generateKeyPair, encryptMessage,            *)
(*                             decryptMessage (tweetnacl box)              *)
(*   src/unnamed/part_002      IdentityVault.deriveKey / lock / unlock     *)
(*                             (Web Crypto PBKDF2 + AES-GCM)               *)
(*                                                                         *)
(* Representation.                                                         *)
(*  - A JavaScript string is a sequence of UTF-16 code units (numbers).    *)
(*    The UTF-8 conversions are computed byte by byte.                     *)
(*  - Key material, nonces and ciphertexts are symbolic byte arrays:       *)
(*    records carrying a tag, a length and what identifies their content.  *)
(*    The primitives are ideal: the random source never returns a value    *)
(*    twice, PBKDF2 is injective in (password bytes, salt), and an         *)
(*    authenticated decryption succeeds exactly on an unmodified           *)
(*    ciphertext under the key and nonce/iv it was produced with.          *)
(*    Curve25519 is commutative: scalarMult(a, Pub(b)) =                   *)
(*    scalarMult(b, Pub(a)); the shared key is the unordered pair.         *)
(*  - A call either returns a value or throws; Throw and Null are          *)
(*    distinct results.                                                    *)
(***************************************************************************)
EXTENDS Integers, Sequences, FiniteSets, TLC

VARIABLES
    rng,        \* random source: per length, how many values were drawn
    keyPairs,   \* KeyPair records returned by generateKeyPair so far
    encLog,     \* encryptMessage calls that returned: arguments and result
    lastDec,    \* the latest decryptMessage call: arguments and result
    lockLog,    \* IdentityVault.lock calls that resolved: arguments and result
    lastUnlock, \* the latest IdentityVault.unlock call: arguments and result
    view,           \* page.tsx state: 'BOOT', 'AUTH', 'MAIN' or 'CHAT'
    isRegistering,  \* page.tsx state: the form registers (or unlocks)
    pinInput,       \* page.tsx state pin: the Security PIN field
    username,       \* page.tsx state: the Your Name field
    statusMsg,      \* page.tsx state: the message under the form
    myKeys,         \* page.tsx state: the KeyPair in memory, or null
    myUsername,     \* page.tsx state: the name in memory
    users,          \* page.tsx state: the directory rows fetched last
    localStorage,   \* the browser's storage: the value of each key, or null
    usersTable,     \* the backend's users table
    auth,           \* the handleAuth call in flight and its locals, or Idle
    loads,          \* how many times the page was loaded
    tried,          \* the PINs unlock was run with since the page loaded
    registered,     \* the registration that wrote the stored vault, or None
    selectedPeer,   \* page.tsx state: the users row of the open chat, or null
    inputMsg,       \* page.tsx state: the message field
    messages,       \* page.tsx state: the rows shown in the open chat
    loading,        \* peers whose loadMessages call is in flight
    sending,        \* rows whose messages insert is in flight
    messagesTable,  \* the backend's messages table
    channel,        \* the realtime subscription and where it started, or null
    calls,          \* IdentityVault calls step by step: the locals of each
    pageMessages,   \* ChatPage.tsx state messages
    inputText,      \* ChatPage.tsx state: the message field
    currentFile,    \* ChatPage.tsx state: the attached file, or null
    showAttachment, \* ChatPage.tsx state: the attachment preview is shown
    showLinkModal,  \* ChatPage.tsx state: the link dialog is shown
    linkInput,      \* ChatPage.tsx state: the field of the link dialog
    timers          \* ChatPage.tsx: the setTimeout callbacks not yet run

reactVars ==
    <<view, isRegistering, pinInput, username, statusMsg, myKeys,
      myUsername, users>>

chatVars ==
    <<selectedPeer, inputMsg, messages, loading, sending, messagesTable,
      channel>>

pageVars ==
    <<pageMessages, inputText, currentFile, showAttachment, showLinkModal,
      linkInput, timers>>

appVars ==
    <<reactVars, localStorage, usersTable, auth, loads, tried, registered,
      chatVars, pageVars>>

vars ==
    <<rng, keyPairs, encLog, lastDec, lockLog, lastUnlock, appVars, calls>>

boxVars == <<keyPairs, encLog, lastDec>>

vaultVars == <<lockLog, lastUnlock>>

-----------------------------------------------------------------------------
(* Bounds of the exploration *)

MaxKeys == 3

MaxEnc == 1

MaxNonceEnc == 2

MaxLock == 2

MaxLoads == 3

\* messages other clients send
MaxReceived == 1

\* messages ChatPage appends
MaxPosts == 2

\* setTimeout callbacks of ChatPage waiting at a time
MaxTimers == 2

MaxSend == 1

MaxCalls == 3

-----------------------------------------------------------------------------
(* Results of a call *)

Throw == [kind |-> "throw"]

Null == [kind |-> "null"]

Ok(v) == [kind |-> "ok", val |-> v]

NoCall == [kind |-> "none"]

-----------------------------------------------------------------------------
(* Strings and UTF-8 *)

IsHigh(u) == u >= 55296 /\ u <= 56319

IsLow(u) == u >= 56320 /\ u <= 57343

IsCont(b, lo, hi) == b >= lo /\ b <= hi

\* UTF-8 bytes of one Unicode scalar value
Utf8Of(cp) ==
    IF cp < 128 THEN <<cp>>
    ELSE IF cp < 2048 THEN <<192 + (cp \div 64), 128 + (cp % 64)>>
    ELSE IF cp < 65536 THEN
        <<224 + (cp \div 4096), 128 + ((cp \div 64) % 64), 128 + (cp % 64)>>
    ELSE
        <<240 + (cp \div 262144), 128 + ((cp \div 4096) % 64),
          128 + ((cp \div 64) % 64), 128 + (cp % 64)>>

\* the scalar value of a surrogate pair
PairValue(hi, lo) == 65536 + (hi - 55296) * 1024 + (lo - 56320)

\* a string is well formed when every surrogate is half of a pair
RECURSIVE WellFormedFrom(_, _)
WellFormedFrom(s, i) ==
    IF i > Len(s) THEN TRUE
    ELSE IF IsHigh(s[i]) THEN
        i < Len(s) /\ IsLow(s[i + 1]) /\ WellFormedFrom(s, i + 2)
    ELSE IF IsLow(s[i]) THEN FALSE
    ELSE WellFormedFrom(s, i + 1)

WellFormed(s) == WellFormedFrom(s, 1)

\* UTF-8 encoding of a string; an unpaired surrogate is encoded as U+FFFD
RECURSIVE Utf8From(_, _)
Utf8From(s, i) ==
    IF i > Len(s) THEN <<>>
    ELSE IF IsHigh(s[i]) /\ i < Len(s) /\ IsLow(s[i + 1]) THEN
        Utf8Of(PairValue(s[i], s[i + 1])) \o Utf8From(s, i + 2)
    ELSE IF IsHigh(s[i]) \/ IsLow(s[i]) THEN
        Utf8Of(65533) \o Utf8From(s, i + 1)
    ELSE Utf8Of(s[i]) \o Utf8From(s, i + 1)

\* number of continuation bytes a lead byte announces (0: not a lead byte)
Need(b) ==
    IF b >= 194 /\ b <= 223 THEN 1
    ELSE IF b >= 224 /\ b <= 239 THEN 2
    ELSE IF b >= 240 /\ b <= 244 THEN 3
    ELSE 0

\* is c a legal k-th continuation byte after lead byte b
ContOk(b, k, c) ==
    IF k = 1 THEN
        IF b = 224 THEN IsCont(c, 160, 191)
        ELSE IF b = 237 THEN IsCont(c, 128, 159)
        ELSE IF b = 240 THEN IsCont(c, 144, 191)
        ELSE IF b = 244 THEN IsCont(c, 128, 143)
        ELSE IsCont(c, 128, 191)
    ELSE IsCont(c, 128, 191)

\* how many legal continuation bytes follow the lead byte at position i
RECURSIVE ContRun(_, _, _)
ContRun(b, i, k) ==
    IF k > Need(b[i]) \/ i + k > Len(b) THEN k - 1
    ELSE IF ContOk(b[i], k, b[i + k]) THEN ContRun(b, i, k + 1)
    ELSE k - 1

\* scalar value of the complete sequence of n + 1 bytes at position i
ScalarAt(b, i, n) ==
    IF n = 1 THEN (b[i] - 192) * 64 + (b[i + 1] - 128)
    ELSE IF n = 2 THEN
        (b[i] - 224) * 4096 + (b[i + 1] - 128) * 64 + (b[i + 2] - 128)
    ELSE (b[i] - 240) * 262144 + (b[i + 1] - 128) * 4096
             + (b[i + 2] - 128) * 64 + (b[i + 3] - 128)

\* code units of one scalar value
UnitsOf(cp) ==
    IF cp < 65536 THEN <<cp>>
    ELSE <<55296 + ((cp - 65536) \div 1024), 56320 + ((cp - 65536) % 1024)>>

\* UTF-8 decoding; -1 marks each ill-formed subsequence
RECURSIVE UnitsFrom(_, _)
UnitsFrom(b, i) ==
    IF i > Len(b) THEN <<>>
    ELSE IF b[i] < 128 THEN <<b[i]>> \o UnitsFrom(b, i + 1)
    ELSE IF Need(b[i]) = 0 THEN <<-1>> \o UnitsFrom(b, i + 1)
    ELSE IF ContRun(b, i, 1) = Need(b[i]) THEN
        UnitsOf(ScalarAt(b, i, Need(b[i]))) \o UnitsFrom(b, i + 1 + Need(b[i]))
    ELSE <<-1>> \o UnitsFrom(b, i + 1 + ContRun(b, i, 1))

HasError(u) == \E i \in 1..Len(u) : u[i] = -1

\* tweetnacl-util decodeUTF8: string to bytes through encodeURIComponent,
\* which throws URIError on an unpaired surrogate
decodeUTF8(s) == IF WellFormed(s) THEN Ok(Utf8From(s, 1)) ELSE Throw

\* tweetnacl-util encodeUTF8: bytes to string through decodeURIComponent,
\* which throws URIError on ill-formed UTF-8
encodeUTF8(b) ==
    IF HasError(UnitsFrom(b, 1)) THEN Throw ELSE Ok(UnitsFrom(b, 1))

\* TextEncoder.encode: never throws, unpaired surrogates become U+FFFD
TextEncode(s) == Utf8From(s, 1)

\* TextDecoder.decode with the default options (fatal: false,
\* ignoreBOM: false): ill-formed input becomes U+FFFD and a leading
\* byte order mark is dropped
TextDecode(b) ==
    LET u == UnitsFrom(b, 1)
        r == [i \in 1..Len(u) |-> IF u[i] = -1 THEN 65533 ELSE u[i]]
    IN  IF Len(r) > 0 /\ r[1] = 65279 THEN Tail(r) ELSE r

-----------------------------------------------------------------------------
(* Byte arrays and the primitives of tweetnacl *)

BoxKeyLength == 32

BoxNonceLength == 24

BoxOverhead == 16

\* nacl.randomBytes(n): the id-th value of length n the source returns
RandomBytes(n, id) == [tag |-> "rnd", len |-> n, id |-> id, flip |-> 0]

\* the array b with its j-th bit inverted (j >= 1)
FlipBit(b, j) == [b EXCEPT !.flip = j]

\* the public key of a secret key (scalarMult.base)
Pub(sk) == [tag |-> "pk", len |-> BoxKeyLength, of |-> sk]

\* the scalar whose public key is pk
Dlog(pk) == IF pk.tag = "pk" THEN pk.of ELSE [tag |-> "dlog", of |-> pk]

\* nacl.box.before: the key both ends compute
SharedKey(pk, sk) == {sk, Dlog(pk)}

\* tweetnacl-util encodeBase64 / decodeBase64; a string that is no
\* base64 text makes decodeBase64 throw TypeError
encodeBase64(b) == [text |-> "base64", bytes |-> b]

NotBase64 == [text |-> "invalid"]

decodeBase64(s) == IF s.text = "base64" THEN Ok(s.bytes) ELSE Throw

\* nacl.box(msg, nonce, publicKey, secretKey): checks the sizes of the
\* keys and of the nonce, then seals msg
naclBox(msg, nonce, pk, sk) ==
    IF pk.len # BoxKeyLength \/ sk.len # BoxKeyLength THEN Throw
    ELSE IF nonce.len # BoxNonceLength THEN Throw
    ELSE Ok([tag |-> "box", len |-> Len(msg) + BoxOverhead,
             key |-> SharedKey(pk, sk), nonce |-> nonce, m |-> msg,
             flip |-> 0])

\* nacl.box.open(box, nonce, publicKey, secretKey): the same size checks,
\* then null unless the authenticator verifies
naclBoxOpen(box, nonce, pk, sk) ==
    IF pk.len # BoxKeyLength \/ sk.len # BoxKeyLength THEN Throw
    ELSE IF nonce.len # BoxNonceLength THEN Throw
    ELSE IF box.len < BoxOverhead THEN Null
    ELSE IF /\ box.tag = "box"
            /\ box.flip = 0
            /\ box.key = SharedKey(pk, sk)
            /\ box.nonce = nonce
         THEN Ok(box.m)
    ELSE Null

-----------------------------------------------------------------------------
(* src/src/utils/crypto.ts *)

generateKeyPair(secret) ==
    [publicKey |-> encodeBase64(Pub(secret)),
     secretKey |-> encodeBase64(secret)]

\* faulty variant: encryptMessage handing its keys to nacl.box in the wrong order
encryptMessageSwappedKeys(message, mySecretKey, theirPublicKey, nonce) ==
    LET messageUint8   == decodeUTF8(message)
        secretKeyUint8 == decodeBase64(mySecretKey)
        publicKeyUint8 == decodeBase64(theirPublicKey)
    IN  IF messageUint8 = Throw \/ secretKeyUint8 = Throw
               \/ publicKeyUint8 = Throw THEN Throw
        ELSE
            LET encrypted == naclBox(messageUint8.val, nonce,
                                     secretKeyUint8.val, publicKeyUint8.val)
            IN  IF encrypted = Throw THEN Throw
                ELSE Ok([nonce |-> encodeBase64(nonce),
                         ciphertext |-> encodeBase64(encrypted.val),
                         authorPublicKey |->
                             encodeBase64(Pub(secretKeyUint8.val))])

\* faulty variant: encryptMessage sealing under an all-zero nonce instead of the
\* random one
encryptMessageFixedNonce(message, mySecretKey, theirPublicKey, nonce) ==
    LET messageUint8   == decodeUTF8(message)
        secretKeyUint8 == decodeBase64(mySecretKey)
        publicKeyUint8 == decodeBase64(theirPublicKey)
        zero           == RandomBytes(BoxNonceLength, 0)
    IN  IF messageUint8 = Throw \/ secretKeyUint8 = Throw
               \/ publicKeyUint8 = Throw THEN Throw
        ELSE
            LET encrypted == naclBox(messageUint8.val, zero,
                                     publicKeyUint8.val, secretKeyUint8.val)
            IN  IF encrypted = Throw THEN Throw
                ELSE Ok([nonce |-> encodeBase64(zero),
                         ciphertext |-> encodeBase64(encrypted.val),
                         authorPublicKey |->
                             encodeBase64(Pub(secretKeyUint8.val))])

\* faulty variant: encryptMessage catching the exception of a rejected key
\* and returning a message with an empty ciphertext
encryptMessageSwallowsError(message, mySecretKey, theirPublicKey, nonce) ==
    LET messageUint8   == decodeUTF8(message)
        secretKeyUint8 == decodeBase64(mySecretKey)
        publicKeyUint8 == decodeBase64(theirPublicKey)
        empty          == [nonce |-> encodeBase64(nonce),
                           ciphertext |-> encodeBase64(RandomBytes(0, 0)),
                           authorPublicKey |-> theirPublicKey]
    IN  IF messageUint8 = Throw THEN Throw
        ELSE IF secretKeyUint8 = Throw \/ publicKeyUint8 = Throw THEN Ok(empty)
        ELSE
            LET encrypted == naclBox(messageUint8.val, nonce,
                                     publicKeyUint8.val, secretKeyUint8.val)
            IN  IF encrypted = Throw THEN Ok(empty)
                ELSE Ok([nonce |-> encodeBase64(nonce),
                         ciphertext |-> encodeBase64(encrypted.val),
                         authorPublicKey |->
                             encodeBase64(Pub(secretKeyUint8.val))])

\* faulty variant: encryptMessage returning the recipient's public key as
\* authorPublicKey
encryptMessageRecipientKey(message, mySecretKey, theirPublicKey, nonce) ==
    LET messageUint8   == decodeUTF8(message)
        secretKeyUint8 == decodeBase64(mySecretKey)
        publicKeyUint8 == decodeBase64(theirPublicKey)
    IN  IF messageUint8 = Throw \/ secretKeyUint8 = Throw
               \/ publicKeyUint8 = Throw THEN Throw
        ELSE
            LET encrypted == naclBox(messageUint8.val, nonce,
                                     publicKeyUint8.val, secretKeyUint8.val)
            IN  IF encrypted = Throw THEN Throw
                ELSE Ok([nonce |-> encodeBase64(nonce),
                         ciphertext |-> encodeBase64(encrypted.val),
                         authorPublicKey |->
                             encodeBase64(publicKeyUint8.val)])

\* faulty variant: encryptMessage that encodes the message and does not
\* seal it
encryptMessageUnsealed(message, mySecretKey, theirPublicKey, nonce) ==
    LET messageUint8   == decodeUTF8(message)
        secretKeyUint8 == decodeBase64(mySecretKey)
    IN  IF messageUint8 = Throw \/ secretKeyUint8 = Throw THEN Throw
        ELSE Ok([nonce |-> encodeBase64(nonce),
                 ciphertext |->
                     encodeBase64([tag |-> "plain",
                                   len |-> Len(messageUint8.val),
                                   m |-> messageUint8.val, flip |-> 0]),
                 authorPublicKey |-> encodeBase64(Pub(secretKeyUint8.val))])

\* encryptMessage with the nonce that randomBytes returned to it
encryptMessage(message, mySecretKey, theirPublicKey, nonce) ==
    LET messageUint8   == decodeUTF8(message)
        secretKeyUint8 == decodeBase64(mySecretKey)
        publicKeyUint8 == decodeBase64(theirPublicKey)
    IN  IF messageUint8 = Throw THEN Throw
        ELSE IF secretKeyUint8 = Throw THEN Throw
        ELSE IF publicKeyUint8 = Throw THEN Throw
        ELSE
            LET encrypted == naclBox(messageUint8.val, nonce,
                                     publicKeyUint8.val, secretKeyUint8.val)
            IN  IF encrypted = Throw THEN Throw
                ELSE Ok([nonce |-> encodeBase64(nonce),
                         ciphertext |-> encodeBase64(encrypted.val),
                         authorPublicKey |->
                             encodeBase64(Pub(secretKeyUint8.val))])

\* the body of the try block of decryptMessage
decryptTry(encryptedMsg, mySecretKey, theirPublicKey) ==
    IF encryptedMsg = Null THEN Throw
    ELSE
    LET nonceUint8      == decodeBase64(encryptedMsg.nonce)
        ciphertextUint8 == decodeBase64(encryptedMsg.ciphertext)
        secretKeyUint8  == decodeBase64(mySecretKey)
        publicKeyUint8  == decodeBase64(theirPublicKey)
    IN  IF nonceUint8 = Throw THEN Throw
        ELSE IF ciphertextUint8 = Throw THEN Throw
        ELSE IF secretKeyUint8 = Throw THEN Throw
        ELSE IF publicKeyUint8 = Throw THEN Throw
        ELSE
            LET decrypted == naclBoxOpen(ciphertextUint8.val, nonceUint8.val,
                                         publicKeyUint8.val, secretKeyUint8.val)
            IN  IF decrypted = Throw THEN Throw
                ELSE IF decrypted = Null THEN Null
                ELSE encodeUTF8(decrypted.val)

\* faulty variant: decryptMessage handing its keys to nacl.box.open in the wrong
\* order
decryptMessageSwappedKeys(encryptedMsg, mySecretKey, theirPublicKey) ==
    LET r == decryptTry(encryptedMsg, theirPublicKey, mySecretKey)
    IN  IF r = Throw THEN Null ELSE r

\* faulty variant: decryptMessage opening with the public key carried in the
\* message instead of the one the caller passed
decryptMessageAuthorKey(encryptedMsg, mySecretKey, theirPublicKey) ==
    LET r == IF encryptedMsg = Null THEN Throw
             ELSE decryptTry(encryptedMsg, mySecretKey,
                             encryptedMsg.authorPublicKey)
    IN  IF r = Throw THEN Null ELSE r

\* faulty variant: decryptMessage returning the empty string where it returns null
decryptMessageEmptyOnFailure(encryptedMsg, mySecretKey, theirPublicKey) ==
    LET r == decryptTry(encryptedMsg, mySecretKey, theirPublicKey)
    IN  IF r = Throw \/ r = Null THEN Ok(<<>>) ELSE r

\* faulty variant: decryptMessage without its try/catch
decryptMessageNoCatch(encryptedMsg, mySecretKey, theirPublicKey) ==
    decryptTry(encryptedMsg, mySecretKey, theirPublicKey)

\* decryptMessage: the catch clause turns every exception into null
decryptMessage(encryptedMsg, mySecretKey, theirPublicKey) ==
    LET r == decryptTry(encryptedMsg, mySecretKey, theirPublicKey)
    IN  IF r = Throw THEN Null ELSE r

-----------------------------------------------------------------------------
(* Web Crypto and JSON, as src/unnamed/part_002 uses them *)

SaltLength == 16

IvLength == 12

Iterations == 100000

KeyBits == 256

GcmTagLength == 16

\* subtle.importKey + subtle.deriveKey with PBKDF2: the AES-GCM key
\* determined by the password bytes, the salt and the parameters
Pbkdf2(password, salt, iterations, hash, bits) ==
    [tag |-> "aes", password |-> password, salt |-> salt,
     iterations |-> iterations, hash |-> hash, bits |-> bits]

\* subtle.encrypt with AES-GCM: ciphertext followed by the tag
gcmEncrypt(key, iv, plain) ==
    [tag |-> "gcm", len |-> Len(plain) + GcmTagLength, key |-> key,
     iv |-> iv, m |-> plain, flip |-> 0]

\* subtle.decrypt with AES-GCM: rejects (OperationError) unless the tag
\* verifies
gcmDecrypt(key, iv, data) ==
    IF data.len < GcmTagLength THEN Throw
    ELSE IF /\ data.tag = "gcm"
            /\ data.flip = 0
            /\ data.key = key
            /\ data.iv = iv
         THEN Ok(data.m)
    ELSE Throw

\* JavaScript values that JSON.parse can return
Undefined == [type |-> "undefined"]

JsonNull == [type |-> "null"]

JsonNumber == [type |-> "number"]

JsonObject(salt, iv, data) ==
    [type |-> "object", salt |-> salt, iv |-> iv, data |-> data]

\* Array.from(bytes): the array of the byte values
ArrayFrom(b) == [type |-> "array", bytes |-> b]

\* new Uint8Array(x): the bytes of an array of byte values, no bytes for
\* undefined
Uint8ArrayOf(x) ==
    IF x.type = "array" THEN x.bytes
    ELSE [tag |-> "rnd", len |-> 0, id |-> 0, flip |-> 0]

\* JSON.stringify / JSON.parse; a string that is no JSON text makes
\* JSON.parse throw SyntaxError
JsonStringify(v) == [text |-> "json", value |-> v]

NotJson == [text |-> "invalid"]

JsonParse(s) == IF s.text = "json" THEN Ok(s.value) ELSE Throw

\* pkg.salt, pkg.iv, pkg.data: TypeError on null, undefined on a value
\* that has no such property
Field(pkg, name) ==
    IF pkg.type = "null" THEN Throw
    ELSE IF pkg.type = "object" THEN Ok(pkg[name])
    ELSE Ok(Undefined)

-----------------------------------------------------------------------------
(* src/unnamed/part_002: IdentityVault *)

\* faulty variant: deriveKey importing an empty password instead of the PIN
deriveKeyWithoutPin(pin, salt) ==
    Pbkdf2(<<>>, salt, Iterations, "SHA-256", KeyBits)

\* faulty variant: the key derived with a hundredth of the iterations
subtleDeriveKeyWeak(keyMaterial, salt) ==
    Pbkdf2(keyMaterial, salt, Iterations \div 100, "SHA-256", KeyBits)

\* deriveKey: the subtle.deriveKey call on the imported key material
subtleDeriveKey(keyMaterial, salt) ==
    Pbkdf2(keyMaterial, salt, Iterations, "SHA-256", KeyBits)

deriveKey(pin, salt) == subtleDeriveKey(TextEncode(pin), salt)

\* faulty variant: lock packing the encoded secret without encrypting it
lockUnencrypted(secretData, pin, salt, iv) ==
    LET plain == TextEncode(secretData)
        content == [tag |-> "plain", len |-> Len(plain), m |-> plain,
                    flip |-> 0]
    IN  JsonStringify(JsonObject(ArrayFrom(salt), ArrayFrom(iv),
                                 ArrayFrom(content)))

\* faulty variant: lock returning the encrypted content alone
lockDataOnly(secretData, pin, salt, iv) ==
    LET key == deriveKey(pin, salt)
        encryptedContent == gcmEncrypt(key, iv, TextEncode(secretData))
    IN  JsonStringify(ArrayFrom(encryptedContent))

\* faulty variant: lock packing the salt under iv and the iv under salt
lockSwapsSaltAndIv(secretData, pin, salt, iv) ==
    LET key == deriveKey(pin, salt)
        encryptedContent == gcmEncrypt(key, iv, TextEncode(secretData))
        packageData == JsonObject(ArrayFrom(iv), ArrayFrom(salt),
                                  ArrayFrom(encryptedContent))
    IN  JsonStringify(packageData)

\* lock with the salt and the iv that getRandomValues returned to it
lock(secretData, pin, salt, iv) ==
    LET key == deriveKey(pin, salt)
        encryptedContent == gcmEncrypt(key, iv, TextEncode(secretData))
        packageData == JsonObject(ArrayFrom(salt), ArrayFrom(iv),
                                  ArrayFrom(encryptedContent))
    IN  JsonStringify(packageData)

\* the body of the try block of unlock
unlockTry(vaultString, pin) ==
    LET pkg == JsonParse(vaultString)
    IN  IF pkg = Throw THEN Throw
        ELSE IF Field(pkg.val, "salt") = Throw THEN Throw
        ELSE
            LET salt == Uint8ArrayOf(Field(pkg.val, "salt").val)
                iv   == Uint8ArrayOf(Field(pkg.val, "iv").val)
                data == Uint8ArrayOf(Field(pkg.val, "data").val)
                key  == deriveKey(pin, salt)
                decryptedBuffer == gcmDecrypt(key, iv, data)
            IN  IF decryptedBuffer = Throw THEN Throw
                ELSE Ok(TextDecode(decryptedBuffer.val))

\* faulty variant: unlock without its try/catch
unlockNoCatch(vaultString, pin) == unlockTry(vaultString, pin)

\* faulty variant: unlock resolving to the empty string in its catch clause
unlockEmptyOnFailure(vaultString, pin) ==
    LET r == unlockTry(vaultString, pin)
    IN  IF r = Throw THEN Ok(<<>>) ELSE r

\* unlock: the catch clause resolves to null on every exception
unlock(vaultString, pin) ==
    LET r == unlockTry(vaultString, pin)
    IN  IF r = Throw THEN Null ELSE r

-----------------------------------------------------------------------------
(* Inputs of the calls *)

\* sample plaintexts: the empty string; U+FEFF, "a", U+00E9 and a
\* surrogate pair (U+1F600), whose UTF-8 forms take 3, 1, 2 and 4 bytes;
\* and "a" followed by an unpaired high surrogate
Messages ==
    {<<>>, <<65279, 97, 233, 55357, 56832>>, <<97, 55357>>}

\* sample secrets: the empty string; U+FEFF followed by "a"; U+00E9
\* followed by a surrogate pair; and "a", U+00E9 followed by an unpaired
\* high surrogate
Secrets ==
    {<<>>, <<65279, 97>>, <<233, 55357, 56832>>, <<97, 233, 55357>>}

\* byte sequences that are not UTF-8
BadUtf8 == <<255>>

\* an array of n bytes that no call of the model produced
Foreign(n) == RandomBytes(n, 0)

SecretKeyArgs ==
    {keyPairs[i].secretKey : i \in 1..Len(keyPairs)}
        \cup {NotBase64, encodeBase64(Foreign(BoxKeyLength - 1))}

PublicKeyArgs ==
    {keyPairs[i].publicKey : i \in 1..Len(keyPairs)}
        \cup {NotBase64, encodeBase64(Foreign(BoxKeyLength - 1))}

\* the bit positions tried on an array of n bytes: the first and the last
TamperBits(n) == {1, 8 * n}

\* an EncryptedMessage with one bit of its nonce or ciphertext inverted
Tampered(msg) ==
    {[msg EXCEPT !.nonce = encodeBase64(FlipBit(msg.nonce.bytes, j))] :
        j \in TamperBits(msg.nonce.bytes.len)}
    \cup
    {[msg EXCEPT !.ciphertext = encodeBase64(FlipBit(msg.ciphertext.bytes, j))] :
        j \in TamperBits(msg.ciphertext.bytes.len)}

\* an EncryptedMessage with a field replaced by something malformed
Malformed(msg) ==
    {[msg EXCEPT !.nonce = NotBase64],
     [msg EXCEPT !.ciphertext = NotBase64],
     [msg EXCEPT !.nonce = encodeBase64(Foreign(BoxNonceLength - 1))],
     [msg EXCEPT !.ciphertext = encodeBase64(Foreign(BoxOverhead - 1))]}

\* a peer that holds the first key pair seals bytes that are not UTF-8,
\* with nacl.box directly, to each public key
RawBoxes ==
    IF keyPairs = <<>> THEN {}
    ELSE {[nonce |-> encodeBase64(Foreign(BoxNonceLength)),
           ciphertext |-> encodeBase64(
               naclBox(BadUtf8, Foreign(BoxNonceLength),
                       keyPairs[i].publicKey.bytes,
                       keyPairs[1].secretKey.bytes).val),
           authorPublicKey |-> keyPairs[1].publicKey] :
          i \in 1..Len(keyPairs)}

Sent == {encLog[i].result : i \in 1..Len(encLog)}

MessageArgs ==
    Sent \cup UNION {Tampered(m) : m \in Sent}
         \cup UNION {Malformed(m) : m \in Sent}
         \cup RawBoxes \cup {Null}

\* sample PINs: "1234" and "4321"
Pins == {<<49, 50, 51, 52>>, <<52, 51, 50, 49>>}

Stored == {lockLog[i].result : i \in 1..Len(lockLog)}

\* a vault string with one bit of its salt, iv or data inverted
Altered(v) ==
    LET p == v.value
    IN  {JsonStringify([p EXCEPT !.salt = ArrayFrom(FlipBit(p.salt.bytes, j))]) :
            j \in TamperBits(p.salt.bytes.len)}
        \cup
        {JsonStringify([p EXCEPT !.iv = ArrayFrom(FlipBit(p.iv.bytes, j))]) :
            j \in TamperBits(p.iv.bytes.len)}
        \cup
        {JsonStringify([p EXCEPT !.data = ArrayFrom(FlipBit(p.data.bytes, j))]) :
            j \in TamperBits(p.data.bytes.len)}

\* a vault string that parses to an object lacking one of the fields
Lacking(v) ==
    LET p == v.value
    IN  {JsonStringify([p EXCEPT !.salt = Undefined]),
         JsonStringify([p EXCEPT !.iv = Undefined]),
         JsonStringify([p EXCEPT !.data = Undefined])}

\* strings that are no JSON, or JSON for null, a number, an empty object
NoPackage ==
    {NotJson, JsonStringify(JsonNull), JsonStringify(JsonNumber),
     JsonStringify(JsonObject(Undefined, Undefined, Undefined))}

VaultArgs ==
    Stored \cup UNION {Altered(v) : v \in Stored}
           \cup UNION {Lacking(v) : v \in Stored}
           \cup NoPackage

-----------------------------------------------------------------------------
(* page.tsx: the secure-chat page.  Strings the page builds from text are *)
(* sequences of code units; a key string is written into such text as a   *)
(* short stand-in for its 44 base64 characters.                           *)

\* no handleAuth call is running
Idle == [pc |-> "idle"]

\* no registration has written the stored vault
None == [kind |-> "none"]

\* the code units String.prototype.trim removes
WhiteSpace ==
    {9, 10, 11, 12, 13, 32, 160, 5760, 8232, 8233, 8239, 8287, 12288, 65279}
        \cup (8192..8202)

RECURSIVE TrimStart(_)
TrimStart(s) ==
    IF s # <<>> /\ Head(s) \in WhiteSpace THEN TrimStart(Tail(s)) ELSE s

RECURSIVE TrimEnd(_)
TrimEnd(s) ==
    IF s # <<>> /\ s[Len(s)] \in WhiteSpace
    THEN TrimEnd(SubSeq(s, 1, Len(s) - 1)) ELSE s

\* s.trim()
Trim(s) == TrimEnd(TrimStart(s))

\* the characters of a key string: 'S' or 'P' and the number of the key
Base64Text(s) ==
    IF s.bytes.tag = "pk" THEN <<80, 48 + s.bytes.of.id>>
    ELSE <<83, 48 + s.bytes.id>>

\* JSON.stringify({ ...keys, username }) for a name that needs no escape
IdentityJson(keys, name) ==
    <<123, 34, 112, 117, 98, 108, 105, 99, 75, 101, 121, 34, 58, 34>> \o Base64Text(keys.publicKey)
        \o <<34, 44, 34, 115, 101, 99, 114, 101, 116, 75, 101, 121, 34, 58, 34>>
        \o Base64Text(keys.secretKey)
        \o <<34, 44, 34, 117, 115, 101, 114, 110, 97, 109, 101, 34, 58, 34>> \o name
        \o <<34, 125>>

\* the names typed into the Your Name field: blank, one to be trimmed,
\* and a plain one
Names == {<<32>>, <<32, 233>>, <<98>>}

\* the key pairs generateKeyPair can have returned
Identities ==
    {generateKeyPair(RandomBytes(BoxKeyLength, k)) : k \in 1..MaxKeys}

\* JSON.parse(json) of handleAuth: the object whose text json is, or Throw
ParseIdentity(json) ==
    LET found == {d \in [keys : Identities, username : {Trim(n) : n \in Names}] :
                     IdentityJson(d.keys, d.username) = json}
    IN  IF found = {} THEN Throw
        ELSE LET d == CHOOSE d \in found : TRUE
             IN  Ok([publicKey |-> d.keys.publicKey,
                     secretKey |-> d.keys.secretKey,
                     username |-> d.username])

\* a row of the users table
UserRow(name, publicKey) == [username |-> name, public_key |-> publicKey]

\* another client's row, in the directory from the start
PeerRow == UserRow(<<99>>, encodeBase64(Pub(Foreign(BoxKeyLength))))

\* a second client's row, once it has registered
OtherRow == UserRow(<<100>>, encodeBase64(Pub(RandomBytes(BoxKeyLength, -1))))

\* the rows of the clients that are not this one
ForeignRows == {PeerRow, OtherRow}

\* the users table accepts the row: username and public_key are unique
Accepts(table, row) ==
    \A i \in 1..Len(table) :
        /\ table[i].username # row.username
        /\ table[i].public_key # row.public_key

InitApp ==
    /\ view = "BOOT"
    /\ isRegistering = FALSE
    /\ pinInput = <<>>
    /\ username = <<>>
    /\ statusMsg = ""
    /\ myKeys = Null
    /\ myUsername = <<>>
    /\ users = <<>>
    /\ localStorage = [wa_vault |-> Null]
    /\ usersTable = <<PeerRow>>
    /\ auth = Idle
    /\ loads = 1
    /\ tried = {}
    /\ registered = None
    /\ selectedPeer = Null
    /\ inputMsg = <<>>
    /\ messages = <<>>
    /\ loading = {}
    /\ sending = {}
    /\ messagesTable = <<>>
    /\ channel = Null

-----------------------------------------------------------------------------
(* State machine: calls of the exported functions *)

\* the first message of ChatPage, "Hey ...", by its first word
Greeting == <<72, 101, 121>>

\* the state of ChatPage after it is mounted
InitPage ==
    /\ pageMessages = <<[id |-> [prefix |-> "", time |-> 1],
                         sender |-> "chatWith", content |-> Greeting,
                         type |-> "text", timestamp |-> -300000,
                         is_sent |-> FALSE, is_read |-> TRUE]>>
    /\ inputText = <<>>
    /\ currentFile = Null
    /\ showAttachment = FALSE
    /\ showLinkModal = FALSE
    /\ linkInput = <<>>
    /\ timers = <<>>

RngLengths == {IvLength, SaltLength, BoxNonceLength, BoxKeyLength}

Init ==
    /\ rng = [n \in RngLengths |-> 0]
    /\ keyPairs = <<>>
    /\ encLog = <<>>
    /\ lastDec = NoCall
    /\ lockLog = <<>>
    /\ lastUnlock = NoCall
    /\ InitApp
    /\ calls = <<>>
    /\ InitPage

\* generateKeyPair()
GenerateKeyPair ==
    /\ Len(keyPairs) < MaxKeys
    /\ keyPairs' = Append(keyPairs,
           generateKeyPair(RandomBytes(BoxKeyLength, rng[BoxKeyLength] + 1)))
    /\ rng' = [rng EXCEPT ![BoxKeyLength] = @ + 1]
    /\ UNCHANGED <<encLog, lastDec, vaultVars, appVars, calls>>

\* encryptMessage(message, mySecretKey, theirPublicKey); at most max calls
EncryptMessage(max) ==
    /\ rng[BoxNonceLength] < max
    /\ \E message \in Messages, mySecretKey \in SecretKeyArgs,
          theirPublicKey \in PublicKeyArgs :
        LET nonce == RandomBytes(BoxNonceLength, rng[BoxNonceLength] + 1)
            r == encryptMessage(message, mySecretKey, theirPublicKey, nonce)
        IN  /\ rng' = [rng EXCEPT ![BoxNonceLength] = @ + 1]
            /\ encLog' = IF r = Throw THEN encLog
                         ELSE Append(encLog,
                                  [message |-> message,
                                   mySecretKey |-> mySecretKey,
                                   theirPublicKey |-> theirPublicKey,
                                   result |-> r.val])
    /\ UNCHANGED <<keyPairs, lastDec, vaultVars, appVars, calls>>

\* decryptMessage(encryptedMsg, mySecretKey, theirPublicKey).  The function
\* reads nothing but its arguments, so one observed call per behaviour,
\* taken in any state and with any arguments, covers every call.
DecryptMessage ==
    /\ lastDec = NoCall
    /\ \E encryptedMsg \in MessageArgs, mySecretKey \in SecretKeyArgs,
          theirPublicKey \in PublicKeyArgs :
        lastDec' = [encryptedMsg |-> encryptedMsg,
                    mySecretKey |-> mySecretKey,
                    theirPublicKey |-> theirPublicKey,
                    result |-> decryptMessage(encryptedMsg, mySecretKey,
                                              theirPublicKey)]
    /\ UNCHANGED <<rng, keyPairs, encLog, vaultVars, appVars, calls>>

NextBox ==
    \/ GenerateKeyPair
    \/ EncryptMessage(MaxEnc)
    \/ DecryptMessage

\* the calls of crypto.ts alone
SpecBox == Init /\ [][NextBox]_vars

NextNonce ==
    \/ GenerateKeyPair
    \/ EncryptMessage(MaxNonceEnc)

\* generateKeyPair and encryptMessage alone, with more calls
SpecNonce == Init /\ [][NextNonce]_vars

\* IdentityVault.lock(secretData, pin)
Lock ==
    /\ Len(lockLog) < MaxLock
    /\ \E secretData \in Secrets, pin \in Pins :
        LET salt == RandomBytes(SaltLength, rng[SaltLength] + 1)
            iv   == RandomBytes(IvLength, rng[IvLength] + 1)
        IN  /\ rng' = [rng EXCEPT ![SaltLength] = @ + 1, ![IvLength] = @ + 1]
            /\ lockLog' = Append(lockLog,
                              [secretData |-> secretData, pin |-> pin,
                               result |-> lock(secretData, pin, salt, iv)])
    /\ UNCHANGED <<boxVars, lastUnlock, appVars, calls>>

\* IdentityVault.unlock(vaultString, pin).  The function reads nothing but
\* its arguments, so one observed call per behaviour, taken in any state
\* and with any arguments, covers every call.
Unlock ==
    /\ lastUnlock = NoCall
    /\ \E vaultString \in VaultArgs, pin \in Pins :
        lastUnlock' = [vaultString |-> vaultString, pin |-> pin,
                       result |-> unlock(vaultString, pin)]
    /\ UNCHANGED <<rng, boxVars, lockLog, appVars, calls>>

NextVault ==
    \/ Lock
    \/ Unlock

\* the calls of IdentityVault alone
SpecVault == Init /\ [][NextVault]_vars

Next ==
    \/ GenerateKeyPair
    \/ EncryptMessage(MaxEnc)
    \/ DecryptMessage
    \/ Lock
    \/ Unlock

Spec == Init /\ [][Next]_vars

BoxUntouched ==
    keyPairs = <<>> /\ encLog = <<>> /\ lastDec = NoCall
        /\ rng[BoxNonceLength] = 0

VaultUntouched == lockLog = <<>> /\ lastUnlock = NoCall

NextEither ==
    \/ VaultUntouched /\ NextBox
    \/ BoxUntouched /\ NextVault

\* a behaviour that uses crypto.ts or IdentityVault, not both: the two
\* share no state
SpecEither == Init /\ [][NextEither]_vars

-----------------------------------------------------------------------------
(* State machine: the secure-chat page.  One handleAuth call runs at a    *)
(* time; each action is the part of a handler between two awaits.         *)

libVars == <<boxVars, vaultVars, calls, pageVars>>

\* what handleAuth and the form leave alone
idleVars == <<libVars, chatVars>>

\* the boot effect's timer
Boot ==
    /\ view = "BOOT"
    /\ isRegistering' = (localStorage.wa_vault = Null)
    /\ view' = "AUTH"
    /\ UNCHANGED <<rng, idleVars, pinInput, username, statusMsg, myKeys, myUsername,
                   users, localStorage, usersTable, auth, loads, tried,
                   registered>>

\* typing into the Your Name field
SetUsername ==
    /\ view = "AUTH" /\ isRegistering
    /\ \E name \in Names : username' = name
    /\ UNCHANGED <<rng, idleVars, view, isRegistering, pinInput, statusMsg, myKeys,
                   myUsername, users, localStorage, usersTable, auth, loads,
                   tried, registered>>

\* typing into the Security PIN field
SetPin ==
    /\ view = "AUTH"
    /\ \E digits \in Pins : pinInput' = digits
    /\ UNCHANGED <<rng, idleVars, view, isRegistering, username, statusMsg,
                   myKeys, myUsername, users, localStorage, usersTable, auth,
                   loads, tried, registered>>

\* faulty variant: the validation without the test of the name
RejectedForPinOnly(digits, name) == Len(digits) < 4

\* faulty variant: the validation without the test of the PIN
RejectedForNameOnly(digits, name) == Trim(name) = <<>>

\* handleAuth: pin.length < 4 || !username.trim()
RegistrationRejected(digits, name) == Len(digits) < 4 \/ Trim(name) = <<>>

\* faulty variant: the error of the users insert is not thrown
ThrowsNothing(error) == FALSE

\* handleAuth: if (error) throw error; no error is the empty message
ThrowsOn(error) == error # ""

\* the outcomes of the users insert: the row is taken, or the request
\* fails, as it must when the row breaks a unique constraint
InsertErrors(row) ==
    IF Accepts(usersTable, row) THEN {"", "Failed to fetch"}
    ELSE {"duplicate key value"}

\* handleAuth up to its first await
HandleAuth ==
    /\ view = "AUTH" /\ auth = Idle
    /\ IF isRegistering THEN
           IF RegistrationRejected(pinInput, username) THEN
               /\ statusMsg' = "Enter a valid name and 4+ digit PIN"
               /\ UNCHANGED <<rng, isRegistering, auth>>
           ELSE
               /\ rng[BoxKeyLength] < MaxKeys
               /\ rng' = [rng EXCEPT ![BoxKeyLength] = @ + 1]
               /\ auth' = [pc |-> "insert",
                           keys |-> generateKeyPair(
                               RandomBytes(BoxKeyLength, rng[BoxKeyLength] + 1)),
                           username |-> Trim(username),
                           pin |-> pinInput]
               /\ statusMsg' = ""
               /\ UNCHANGED isRegistering
       ELSE
           IF localStorage.wa_vault = Null THEN
               /\ isRegistering' = TRUE
               /\ statusMsg' = ""
               /\ UNCHANGED <<rng, auth>>
           ELSE
               /\ auth' = [pc |-> "unlock", vault |-> localStorage.wa_vault,
                           pin |-> pinInput]
               /\ statusMsg' = ""
               /\ UNCHANGED <<rng, isRegistering>>
    /\ UNCHANGED <<idleVars, view, pinInput, username, myKeys, myUsername, users,
                   localStorage, usersTable, loads, tried, registered>>

\* handleAuth: the users insert resolves; without error, lock is called
UsersInsertResolves ==
    /\ auth.pc = "insert"
    /\ LET row == UserRow(auth.username, auth.keys.publicKey)
       IN  \E error \in InsertErrors(row) :
              /\ usersTable' = IF error = "" THEN Append(usersTable, row)
                                ELSE usersTable
              /\ IF ThrowsOn(error) THEN
                     /\ statusMsg' = error
                     /\ auth' = Idle
                     /\ UNCHANGED rng
                 ELSE
                     /\ rng' = [rng EXCEPT ![SaltLength] = @ + 1,
                                           ![IvLength] = @ + 1]
                     /\ auth' = [pc |-> "lock", keys |-> auth.keys,
                                 username |-> auth.username, pin |-> auth.pin,
                                 salt |-> RandomBytes(SaltLength,
                                                      rng[SaltLength] + 1),
                                 iv |-> RandomBytes(IvLength,
                                                    rng[IvLength] + 1)]
                     /\ UNCHANGED statusMsg
    /\ UNCHANGED <<idleVars, view, isRegistering, pinInput, username, myKeys,
                   myUsername, users, localStorage, loads, tried, registered>>

\* handleAuth: lock resolves; the vault is stored and the identity set
LockResolves ==
    /\ auth.pc = "lock"
    /\ LET vault == lock(IdentityJson(auth.keys, auth.username), auth.pin,
                         auth.salt, auth.iv)
       IN  /\ localStorage' = [localStorage EXCEPT !.wa_vault = vault]
           /\ registered' = [keys |-> auth.keys, username |-> auth.username,
                             pin |-> auth.pin, vault |-> vault]
    /\ myKeys' = auth.keys
    /\ myUsername' = auth.username
    /\ auth' = [pc |-> "fetchUsers"]
    /\ UNCHANGED <<rng, idleVars, view, isRegistering, pinInput, username, statusMsg,
                   users, usersTable, loads, tried>>

\* handleAuth: lock rejects (WebCrypto refuses, as outside a secure context)
LockRejects ==
    /\ auth.pc = "lock"
    /\ statusMsg' = "crypto.subtle is undefined"
    /\ auth' = Idle
    /\ UNCHANGED <<rng, idleVars, view, isRegistering, pinInput, username, myKeys,
                   myUsername, users, localStorage, usersTable, loads, tried,
                   registered>>

\* faulty variant: the restored pair with its two keys exchanged
RestoredKeysSwapped(data) ==
    [publicKey |-> data.secretKey, secretKey |-> data.publicKey]

\* handleAuth: the KeyPair built from the parsed vault content
RestoredKeys(data) ==
    [publicKey |-> data.publicKey, secretKey |-> data.secretKey]

\* handleAuth: unlock resolves
UnlockResolves ==
    /\ auth.pc = "unlock"
    /\ tried' = tried \cup {auth.pin}
    /\ LET json == unlock(auth.vault, auth.pin)
           data == ParseIdentity(json.val)
       IN  IF json = Null THEN
               /\ statusMsg' = "Incorrect PIN"
               /\ auth' = Idle
               /\ UNCHANGED <<myKeys, myUsername>>
           ELSE IF data = Throw THEN
               /\ statusMsg' = "Unexpected token"
               /\ auth' = Idle
               /\ UNCHANGED <<myKeys, myUsername>>
           ELSE
               /\ myKeys' = RestoredKeys(data.val)
               /\ myUsername' = data.val.username
               /\ auth' = [pc |-> "fetchUsers"]
               /\ UNCHANGED statusMsg
    /\ UNCHANGED <<rng, idleVars, view, isRegistering, pinInput, username, users,
                   localStorage, usersTable, loads, registered>>

\* the realtime effect: a channel that reports the rows inserted from now on
Subscribed(table) == [since |-> Len(table)]

\* handleAuth: fetchUsers resolves, with the rows or with an error
FetchUsersResolves ==
    /\ auth.pc = "fetchUsers"
    /\ \/ users' = usersTable
       \/ UNCHANGED users
    /\ view' = "MAIN"
    /\ channel' = Subscribed(messagesTable)
    /\ auth' = Idle
    /\ UNCHANGED <<rng, libVars, selectedPeer, inputMsg, messages, loading,
                   sending, messagesTable, isRegistering, pinInput, username, statusMsg,
                   myKeys, myUsername, localStorage, usersTable, loads, tried,
                   registered>>

\* the component's state after a page load; a handler in flight is gone
Mounted ==
    /\ view' = "BOOT"
    /\ isRegistering' = FALSE
    /\ pinInput' = <<>>
    /\ username' = <<>>
    /\ statusMsg' = ""
    /\ myKeys' = Null
    /\ myUsername' = <<>>
    /\ users' = <<>>
    /\ auth' = Idle
    /\ tried' = {}
    /\ loads' = loads + 1
    /\ selectedPeer' = Null
    /\ inputMsg' = <<>>
    /\ messages' = <<>>
    /\ loading' = {}
    /\ sending' = {}
    /\ channel' = Null

\* the page is loaded again
Reload ==
    /\ loads < MaxLoads
    /\ Mounted
    /\ UNCHANGED <<rng, libVars, localStorage, usersTable, registered,
                   messagesTable>>

\* the Reset & Create New Account button
Reset ==
    /\ view = "AUTH" /\ ~isRegistering
    /\ loads < MaxLoads
    /\ localStorage' = [wa_vault |-> Null]
    /\ registered' = None
    /\ Mounted
    /\ UNCHANGED <<rng, libVars, usersTable, messagesTable>>

NextAuth ==
    \/ Boot
    \/ SetUsername
    \/ SetPin
    \/ HandleAuth
    \/ UsersInsertResolves
    \/ LockResolves
    \/ LockRejects
    \/ UnlockResolves
    \/ FetchUsersResolves
    \/ Reload
    \/ Reset

\* registration, unlocking and reloading of the secure-chat page
SpecAuth == Init /\ [][NextAuth]_vars

-----------------------------------------------------------------------------
(* State machine: the chat of the secure-chat page *)

\* what the chat handlers leave alone
authVars ==
    <<isRegistering, pinInput, username, statusMsg, myKeys, myUsername, users,
      localStorage, usersTable, auth, loads, tried, registered>>

\* the row handleSend inserts
MessageRow(sender, receiver, encrypted) ==
    [sender_username |-> sender, receiver_username |-> receiver,
     nonce |-> encrypted.nonce, ciphertext |-> encrypted.ciphertext]

\* the text of encryptedContent.authorPublicKey in the chat: ""
EmptyText == encodeBase64([tag |-> "rnd", len |-> 0, id |-> 0, flip |-> 0])

\* row i of the messages table as select and the realtime payload give
\* it: id and created_at are set by the table, one per row, in order
StoredMessage(table, i) ==
    [id |-> i, sender_username |-> table[i].sender_username,
     receiver_username |-> table[i].receiver_username,
     nonce |-> table[i].nonce, ciphertext |-> table[i].ciphertext,
     created_at |-> i]

\* the MessageLog entry built from a row
MessageLog(m) ==
    [id |-> m.id, sender_username |-> m.sender_username,
     receiver_username |-> m.receiver_username,
     encryptedContent |-> [ciphertext |-> m.ciphertext, nonce |-> m.nonce,
                           authorPublicKey |-> EmptyText],
     timestamp |-> m.created_at]

\* loadMessages: of the rows from i on that I sent or received, those
\* between me and the peer, in order
RECURSIVE ConversationFrom(_, _, _, _)
ConversationFrom(table, i, peerUsername, me) ==
    IF i > Len(table) THEN <<>>
    ELSE LET m == StoredMessage(table, i)
             rest == ConversationFrom(table, i + 1, peerUsername, me)
         IN  IF /\ m.sender_username = me \/ m.receiver_username = me
                /\ \/ m.sender_username = peerUsername
                         /\ m.receiver_username = me
                   \/ m.sender_username = me
                         /\ m.receiver_username = peerUsername
             THEN <<MessageLog(m)>> \o rest ELSE rest

Conversation(table, peerUsername, me) ==
    ConversationFrom(table, 1, peerUsername, me)

\* the texts typed into the message field: a blank one and a message
Drafts == {<<32>>, <<97, 233>>}

\* openChat(user), for a user of the chat list
OpenChat ==
    /\ view = "MAIN"
    /\ \E i \in 1..Len(users) :
          /\ users[i].username # myUsername
          /\ selectedPeer' = users[i]
          /\ loading' = loading \cup {users[i].username}
    /\ messages' = <<>>
    /\ view' = "CHAT"
    /\ channel' = Subscribed(messagesTable)
    /\ UNCHANGED <<rng, libVars, authVars, inputMsg, sending, messagesTable>>

\* faulty variant: loadMessages that adds the rows to the list
LoadedAppended(prev, data) == prev \o data

\* loadMessages: setMessages(filtered.map(...)) replaces the list
Loaded(prev, data) == data

\* loadMessages: the select resolves, with the rows or with an error
LoadMessagesResolves ==
    /\ \E peerUsername \in loading :
          /\ loading' = loading \ {peerUsername}
          /\ \/ messages' =
                    Loaded(messages,
                           Conversation(messagesTable, peerUsername,
                                        myUsername))
             \/ UNCHANGED messages
    /\ UNCHANGED <<rng, libVars, authVars, view, selectedPeer, inputMsg,
                   sending, messagesTable, channel>>

\* the back arrow of the chat header
BackToMain ==
    /\ view = "CHAT"
    /\ view' = "MAIN"
    /\ channel' = Subscribed(messagesTable)
    /\ UNCHANGED <<rng, libVars, authVars, selectedPeer, inputMsg, messages,
                   loading, sending, messagesTable>>

\* typing into the message field
SetInputMsg ==
    /\ view = "CHAT"
    /\ \E text \in Drafts : inputMsg' = text
    /\ UNCHANGED <<rng, libVars, authVars, view, selectedPeer, messages,
                   loading, sending, messagesTable, channel>>

\* handleSend up to its await; an exception of encryptMessage leaves it
HandleSend ==
    /\ view = "CHAT"
    /\ Trim(inputMsg) # <<>> /\ selectedPeer # Null /\ myKeys # Null
    /\ rng[BoxNonceLength] < MaxSend
    /\ rng' = [rng EXCEPT ![BoxNonceLength] = @ + 1]
    /\ LET encrypted ==
               encryptMessage(inputMsg, myKeys.secretKey,
                              selectedPeer.public_key,
                              RandomBytes(BoxNonceLength,
                                          rng[BoxNonceLength] + 1))
       IN  sending' = IF encrypted = Throw THEN sending
                      ELSE sending \cup
                               {MessageRow(myUsername, selectedPeer.username,
                                           encrypted.val)}
    /\ UNCHANGED <<libVars, authVars, view, selectedPeer, inputMsg, messages,
                   loading, messagesTable, channel>>

\* handleSend: the messages insert resolves, without or with an error
MessagesInsertResolves ==
    /\ \E row \in sending :
          /\ sending' = sending \ {row}
          /\ \/ /\ messagesTable' = Append(messagesTable, row)
                /\ inputMsg' = <<>>
             \/ UNCHANGED <<messagesTable, inputMsg>>
    /\ UNCHANGED <<rng, libVars, authVars, view, selectedPeer, messages,
                   loading, channel>>

\* faulty variant: the INSERT callback without the test of the id
ReceivedAppended(prev, newMsg) == Append(prev, MessageLog(newMsg))

\* the INSERT callback's setMessages: the list with the new row, unless
\* an entry has its id
Received(prev, newMsg) ==
    IF \E k \in 1..Len(prev) : prev[k].id = newMsg.id THEN prev
    ELSE Append(prev, MessageLog(newMsg))

\* the realtime INSERT callback runs for a row inserted since the
\* channel was subscribed; a row can be reported late and more than once
RealtimeInsert ==
    /\ channel # Null
    /\ \E i \in (channel.since + 1)..Len(messagesTable) :
          LET newMsg == StoredMessage(messagesTable, i)
          IN  messages' =
                  IF \/ newMsg.sender_username = myUsername
                     \/ newMsg.receiver_username = myUsername
                  THEN Received(messages, newMsg)
                  ELSE messages
    /\ UNCHANGED <<rng, libVars, authVars, view, selectedPeer, inputMsg,
                   loading, sending, messagesTable, channel>>

\* the call decryptMessage(encryptedMsg, mySecretKey, theirPublicKey) of
\* a bubble and what it returned
Decrypted(encryptedMsg, mySecretKey, theirPublicKey) ==
    [encryptedMsg |-> encryptedMsg, mySecretKey |-> mySecretKey,
     theirPublicKey |-> theirPublicKey,
     result |-> decryptMessage(encryptedMsg, mySecretKey, theirPublicKey)]

\* the fixed texts of a bubble, without their pictographs
Label(text) == [label |-> text]

\* dec || "Unable to decrypt": null and the empty string give the label
Shown(dec) ==
    IF dec = Null THEN Label("Unable to decrypt")
    ELSE IF dec.val = <<>> THEN Label("Unable to decrypt")
    ELSE dec

\* faulty variant: a bubble that decrypts my own messages as well
BubbleOfAnySender(msg) ==
    LET call == Decrypted(msg.encryptedContent, myKeys.secretKey,
                          selectedPeer.public_key)
    IN  [content |-> Shown(call.result), decrypt |-> call]

\* the bubble of the chat view for msg: its text and the decryptMessage
\* call made to get it, if any
Bubble(msg) ==
    LET isMe == msg.sender_username = myUsername
    IN  IF isMe THEN [content |-> Label("Encrypted"), decrypt |-> NoCall]
        ELSE IF myKeys # Null /\ selectedPeer # Null THEN
            LET call == Decrypted(msg.encryptedContent, myKeys.secretKey,
                                  selectedPeer.public_key)
            IN  [content |-> Shown(call.result), decrypt |-> call]
        ELSE [content |-> Label(""), decrypt |-> NoCall]

\* the bubbles of the chat view, one per entry of messages
Bubbles == [k \in 1..Len(messages) |-> Bubble(messages[k])]

\* the rows of the messages table that other clients sent
ReceivedIds ==
    {i \in 1..Len(messagesTable) :
        \E r \in ForeignRows :
            messagesTable[i].sender_username = r.username}

\* the text other clients send
PeerText == <<104, 105>>

\* another client registers before this one has fetched the directory:
\* its row enters the users table
PeerRegisters ==
    /\ view \in {"BOOT", "AUTH"}
    /\ Accepts(usersTable, OtherRow)
    /\ usersTable' = Append(usersTable, OtherRow)
    /\ UNCHANGED <<rng, libVars, reactVars, localStorage, auth, loads, tried,
                   registered, chatVars>>

\* another client's handleSend during this client's session: a row from it
\* to a user of the directory enters the messages table
PeerSends ==
    /\ channel # Null
    /\ Cardinality(ReceivedIds) < MaxReceived
    /\ \E s \in 1..Len(usersTable), r \in 1..Len(usersTable) :
          /\ usersTable[s] \in ForeignRows
          /\ r # s
          /\ LET encrypted ==
                     encryptMessage(
                         PeerText,
                         encodeBase64(
                             Dlog(decodeBase64(usersTable[s].public_key).val)),
                         usersTable[r].public_key,
                         RandomBytes(BoxNonceLength,
                                     0 - Cardinality(ReceivedIds)))
             IN  messagesTable' =
                     Append(messagesTable,
                            MessageRow(usersTable[s].username,
                                       usersTable[r].username,
                                       encrypted.val))
    /\ UNCHANGED <<rng, libVars, authVars, view, selectedPeer, inputMsg,
                   messages, loading, sending, channel>>

NextApp ==
    \/ NextAuth
    \/ OpenChat
    \/ LoadMessagesResolves
    \/ BackToMain
    \/ SetInputMsg
    \/ HandleSend
    \/ MessagesInsertResolves
    \/ RealtimeInsert

\* the secure-chat page: registration, unlocking, chats and sending
SpecApp == Init /\ [][NextApp]_vars

NextChat ==
    \/ Boot
    \/ SetUsername
    \/ SetPin
    \/ HandleAuth
    \/ UsersInsertResolves
    \/ LockResolves
    \/ FetchUsersResolves
    \/ OpenChat
    \/ LoadMessagesResolves
    \/ BackToMain
    \/ SetInputMsg
    \/ HandleSend
    \/ MessagesInsertResolves
    \/ RealtimeInsert
    \/ PeerRegisters
    \/ PeerSends

\* the first session of the secure-chat page, from registration on, among
\* other clients, which register and send
SpecChat == Init /\ [][NextChat]_vars

-----------------------------------------------------------------------------
(* State machine: IdentityVault.lock and unlock step by step.  A call is  *)
(* a frame of locals; each action runs one call from an await to the next. *)

\* faulty variant: the locals kept in one place, where the call started
\* last has put its own
FrameOfLatest(all, c) == all[Len(all)]

\* the locals a resumed call reads: those of its own invocation
Frame(all, c) == all[c]

\* the locals of a call that has not passed an await yet
Pending(frame) ==
    frame @@ [secretData |-> <<>>, vaultString |-> NotJson,
              salt |-> Uint8ArrayOf(Undefined), iv |-> Uint8ArrayOf(Undefined),
              data |-> Uint8ArrayOf(Undefined),
              keyMaterial |-> <<>>, key |-> Undefined, result |-> NoCall]

\* the secrets locked concurrently
AsyncSecrets == {<<>>, <<65279, 97>>}

\* the strings unlocked concurrently: the packages lock has returned, a
\* string that is no JSON and the JSON text null
AsyncPackages == Stored \cup {NotJson, JsonStringify(JsonNull)}

\* lock(secretData, pin) up to the await of importKey
StartLock ==
    /\ Len(calls) < MaxCalls
    /\ \E secretData \in AsyncSecrets, pin \in Pins :
          calls' = Append(calls, Pending(
              [op |-> "lock", secretData |-> secretData, pin |-> pin,
               salt |-> RandomBytes(SaltLength, rng[SaltLength] + 1),
               iv |-> RandomBytes(IvLength, rng[IvLength] + 1),
               pc |-> "importKey"]))
    /\ rng' = [rng EXCEPT ![SaltLength] = @ + 1, ![IvLength] = @ + 1]
    /\ UNCHANGED <<boxVars, vaultVars, appVars>>

\* unlock(vaultString, pin) up to the await of importKey, or to the catch
StartUnlock ==
    /\ Len(calls) < MaxCalls
    /\ \E vaultString \in AsyncPackages, pin \in Pins :
          LET pkg == JsonParse(vaultString)
              call == [op |-> "unlock", vaultString |-> vaultString,
                       pin |-> pin]
          IN  IF pkg = Throw \/ Field(pkg.val, "salt") = Throw THEN
                  calls' = Append(calls,
                      [Pending(call @@ [pc |-> "done"])
                          EXCEPT !.result = Null])
              ELSE
                  calls' = Append(calls, Pending(call @@
                      [salt |-> Uint8ArrayOf(Field(pkg.val, "salt").val),
                       iv |-> Uint8ArrayOf(Field(pkg.val, "iv").val),
                       data |-> Uint8ArrayOf(Field(pkg.val, "data").val),
                       pc |-> "importKey"]))
    /\ UNCHANGED <<rng, boxVars, vaultVars, appVars>>

\* deriveKey: importKey resolves
ImportKeyResolves ==
    /\ \E c \in 1..Len(calls) :
          /\ calls[c].pc = "importKey"
          /\ calls' = [calls EXCEPT ![c] =
                 [@ EXCEPT !.keyMaterial = TextEncode(Frame(calls, c).pin),
                           !.pc = "deriveKey"]]
    /\ UNCHANGED <<rng, boxVars, vaultVars, appVars>>

\* deriveKey: subtle.deriveKey resolves, and with it the caller's await
DeriveKeyResolves ==
    /\ \E c \in 1..Len(calls) :
          /\ calls[c].pc = "deriveKey"
          /\ calls' = [calls EXCEPT ![c] =
                 [@ EXCEPT !.key = subtleDeriveKey(
                                       Frame(calls, c).keyMaterial,
                                       Frame(calls, c).salt),
                           !.pc = IF @ = "deriveKey" /\ calls[c].op = "lock"
                                  THEN "encrypt" ELSE "decrypt"]]
    /\ UNCHANGED <<rng, boxVars, vaultVars, appVars>>

\* lock: subtle.encrypt resolves and the package is returned
EncryptResolves ==
    /\ \E c \in 1..Len(calls) :
          LET f == Frame(calls, c)
              encryptedContent ==
                  gcmEncrypt(f.key, f.iv, TextEncode(f.secretData))
              packageData == JsonObject(ArrayFrom(f.salt), ArrayFrom(f.iv),
                                        ArrayFrom(encryptedContent))
          IN  /\ calls[c].pc = "encrypt"
              /\ calls' = [calls EXCEPT ![c] =
                     [@ EXCEPT !.result = JsonStringify(packageData),
                               !.pc = "done"]]
              /\ lockLog' = Append(lockLog,
                     [secretData |-> calls[c].secretData,
                      pin |-> calls[c].pin,
                      result |-> JsonStringify(packageData)])
    /\ UNCHANGED <<rng, boxVars, lastUnlock, appVars>>

\* unlock: subtle.decrypt resolves or rejects
DecryptResolves ==
    /\ \E c \in 1..Len(calls) :
          LET f == Frame(calls, c)
              decryptedBuffer == gcmDecrypt(f.key, f.iv, f.data)
          IN  /\ calls[c].pc = "decrypt"
              /\ calls' = [calls EXCEPT ![c] =
                     [@ EXCEPT !.result =
                                   IF decryptedBuffer = Throw THEN Null
                                   ELSE Ok(TextDecode(decryptedBuffer.val)),
                               !.pc = "done"]]
    /\ UNCHANGED <<rng, boxVars, vaultVars, appVars>>

NextAsync ==
    \/ StartLock
    \/ StartUnlock
    \/ ImportKeyResolves
    \/ DeriveKeyResolves
    \/ EncryptResolves
    \/ DecryptResolves

\* IdentityVault calls running concurrently
SpecAsync == Init /\ [][NextAsync]_vars

-----------------------------------------------------------------------------
(* State machine: src/src/components/ChatPage.tsx *)

\* what ChatPage leaves alone
outsideVars ==
    <<rng, boxVars, vaultVars, calls, reactVars, localStorage, usersTable,
      auth, loads, tried, registered, chatVars>>

\* "http://" and "https://"
Http == <<104, 116, 116, 112, 58, 47, 47>>

Https == <<104, 116, 116, 112, 115, 58, 47, 47>>

\* text.match(/https?:\/\/[^\s]+/): the scheme, somewhere in the text,
\* followed by a character that is no white space
IsLink(text) ==
    \E i \in 1..Len(text) : \E scheme \in {Http, Https} :
        /\ i + Len(scheme) <= Len(text)
        /\ SubSeq(text, i, i + Len(scheme) - 1) = scheme
        /\ text[i + Len(scheme)] \notin WhiteSpace

\* what is typed into the message field: nothing and "hi"
Texts == {<<>>, <<104, 105>>}

\* what is typed into the link dialog: a blank, "https://b ", "b"
Links == {<<32>>, Https \o <<98, 32>>, <<98>>}

\* the files picked: name and size in bytes
Files == {[name |-> "a.txt", size |-> 1536]}

\* (size / 1024).toFixed(1), in tenths of a KB
FileSize(size) == (size * 10 + 512) \div 1024

\* Date.now() in sendMessage: a later call reads a later time, here the
\* number of entries before it
Now == Len(pageMessages)

\* sendMessage: the entries of newMessages, for the inputText and the
\* currentFile of the render the function belongs to
NewMessages(text, file) ==
    (IF file # Null
     THEN <<[id |-> [prefix |-> "file-", time |-> Now], sender |-> "myUsername",
             content |-> <<>>, type |-> "file", file_name |-> file.name,
             file_size |-> FileSize(file.size), timestamp |-> Now,
             is_sent |-> TRUE, is_read |-> FALSE]>>
     ELSE <<>>)
    \o
    (IF text # <<>>
     THEN <<[id |-> [prefix |-> "msg-", time |-> Now], sender |-> "myUsername",
             content |-> text,
             type |-> IF IsLink(text) THEN "link" ELSE "text",
             timestamp |-> Now, is_sent |-> TRUE, is_read |-> FALSE]>>
     ELSE <<>>)

\* a setTimeout callback: the function and the variables of the render
\* that made it
Timer(fn, text, file, link, ids) ==
    [fn |-> fn, inputText |-> text, currentFile |-> file, linkInput |-> link,
     ids |-> ids]

\* the list without its i-th entry
Without(list, i) == SubSeq(list, 1, i - 1) \o SubSeq(list, i + 1, Len(list))

\* faulty variant: what a callback made in a render sees of a state
\* variable is its value when the callback runs
Latest(rendered, current) == current

\* a function made in a render sees the state variables of that render
Closed(rendered, current) == rendered

\* sendMessage() of the render with this inputText and currentFile; the
\* other callbacks waiting are rest
RunSendMessage(renderedText, renderedFile, rest) ==
    LET text == Trim(Closed(renderedText, inputText))
        file == Closed(renderedFile, currentFile)
        newMessages == NewMessages(text, file)
    IN  IF text = <<>> /\ file = Null THEN
            /\ timers' = rest
            /\ UNCHANGED <<pageMessages, inputText, currentFile,
                           showAttachment>>
        ELSE
            /\ Len(pageMessages) + Len(newMessages) <= MaxPosts + 1
            /\ Len(rest) < MaxTimers
            /\ IF file # Null
               THEN currentFile' = Null /\ showAttachment' = FALSE
               ELSE UNCHANGED <<currentFile, showAttachment>>
            /\ pageMessages' = pageMessages \o newMessages
            /\ inputText' = <<>>
            /\ timers' =
                   Append(rest,
                          Timer("read", <<>>, Null, <<>>,
                                {newMessages[k].id :
                                     k \in 1..Len(newMessages)}))

\* typing into the message field
SetInputText ==
    /\ \E text \in Texts : inputText' = text
    /\ UNCHANGED <<outsideVars, pageMessages, currentFile, showAttachment,
                   showLinkModal, linkInput, timers>>

\* the link button, and the Cancel button and the backdrop of the dialog
SetShowLinkModal ==
    /\ showLinkModal' = ~showLinkModal
    /\ UNCHANGED <<outsideVars, pageMessages, inputText, currentFile,
                   showAttachment, linkInput, timers>>

\* typing into the field of the link dialog
SetLinkInput ==
    /\ showLinkModal
    /\ \E text \in Links : linkInput' = text
    /\ UNCHANGED <<outsideVars, pageMessages, inputText, currentFile,
                   showAttachment, showLinkModal, timers>>

\* handleFileUpload, and the button that removes the attachment
HandleFileUpload ==
    /\ \/ \E file \in Files :
             currentFile' = file /\ showAttachment' = TRUE
       \/ /\ showAttachment /\ currentFile # Null
          /\ currentFile' = Null /\ showAttachment' = FALSE
    /\ UNCHANGED <<outsideVars, pageMessages, inputText, showLinkModal,
                   linkInput, timers>>

\* sendMessage, from the send button or the Enter key
SendMessage ==
    /\ RunSendMessage(inputText, currentFile, timers)
    /\ UNCHANGED <<outsideVars, showLinkModal, linkInput>>

\* sendLink, from the Share button or the Enter key of the dialog
SendLink ==
    /\ showLinkModal
    /\ IF Trim(linkInput) # <<>> THEN
           /\ Len(timers) < MaxTimers
           /\ inputText' = linkInput
           /\ showLinkModal' = FALSE
           /\ linkInput' = <<>>
           /\ timers' = Append(timers,
                               Timer("sendMessage", inputText, currentFile,
                                     linkInput, {}))
       ELSE UNCHANGED <<inputText, showLinkModal, linkInput, timers>>
    /\ UNCHANGED <<outsideVars, pageMessages, currentFile, showAttachment>>

\* a setTimeout callback runs: the sendMessage call of sendLink, or the
\* read receipt of sendMessage
TimerFires ==
    \E i \in 1..Len(timers) :
        /\ IF timers[i].fn = "sendMessage" THEN
               RunSendMessage(timers[i].inputText, timers[i].currentFile,
                              Without(timers, i))
           ELSE
               /\ pageMessages' =
                      [k \in 1..Len(pageMessages) |->
                          IF pageMessages[k].id \in timers[i].ids
                          THEN [pageMessages[k] EXCEPT !.is_read = TRUE]
                          ELSE pageMessages[k]]
               /\ timers' = Without(timers, i)
               /\ UNCHANGED <<inputText, currentFile, showAttachment>>
        /\ UNCHANGED <<outsideVars, showLinkModal, linkInput>>

NextPage ==
    \/ SetInputText
    \/ SetShowLinkModal
    \/ SetLinkInput
    \/ HandleFileUpload
    \/ SendMessage
    \/ SendLink
    \/ TimerFires

\* the chat page of the social application
SpecPage == Init /\ [][NextPage]_vars

-----------------------------------------------------------------------------
(* Properties of crypto.ts *)

\* the i-th logged encryptMessage call was made by the holder of key pair a
\* to the holder of key pair b
SentBy(i, a, b) ==
    /\ encLog[i].mySecretKey = keyPairs[a].secretKey
    /\ encLog[i].theirPublicKey = keyPairs[b].publicKey

\* the observed decryptMessage call was given the i-th logged result
OpenedMsg(i) ==
    /\ lastDec # NoCall
    /\ lastDec.encryptedMsg = encLog[i].result

\* the observed decryptMessage call was given the secret key of pair x
\* and the public key of pair y
OpenedWith(x, y) ==
    /\ lastDec # NoCall
    /\ lastDec.mySecretKey = keyPairs[x].secretKey
    /\ lastDec.theirPublicKey = keyPairs[y].publicKey

Calls == 1..Len(encLog)

Pairs == 1..Len(keyPairs)

\* C1: message round trip.  A message that encryptMessage returned for
\* plaintext P, sender secret key A.secretKey and recipient public key
\* B.publicKey decrypts, with B.secretKey and A.publicKey, to exactly P.
MessageRoundTrip ==
    \A i \in Calls : \A a, b \in Pairs :
        (SentBy(i, a, b) /\ OpenedMsg(i) /\ OpenedWith(b, a))
            => lastDec.result = Ok(encLog[i].message)

\* C1 witness: a recipient other than the sender has opened a message
\* holding U+FEFF, "a", U+00E9 and a surrogate pair, and got it back
MessageRoundTripWitness ==
    \E i \in Calls : \E a, b \in Pairs :
        /\ a # b
        /\ SentBy(i, a, b) /\ OpenedMsg(i) /\ OpenedWith(b, a)
        /\ encLog[i].message = <<65279, 97, 233, 55357, 56832>>
        /\ lastDec.result = Ok(<<65279, 97, 233, 55357, 56832>>)

TamperDetection ==
    \A i \in Calls :
        (lastDec # NoCall /\ lastDec.encryptedMsg \in Tampered(encLog[i].result))
            => lastDec.result = Null

\* C6 witness: the recipient has opened, with the right keys, a message
\* that differs from the one sent in one bit of the ciphertext only, and
\* got null
TamperDetectionWitness ==
    \E i \in Calls : \E a, b \in Pairs :
        /\ a # b
        /\ SentBy(i, a, b) /\ OpenedWith(b, a)
        /\ lastDec.encryptedMsg \in Tampered(encLog[i].result)
        /\ lastDec.encryptedMsg.nonce = encLog[i].result.nonce
        /\ lastDec.encryptedMsg.ciphertext # encLog[i].result.ciphertext
        /\ lastDec.result = Null

\* C7: nonce freshness.  Two returned encryptMessage calls under the same
\* (mySecretKey, theirPublicKey) never carry the same nonce, and two calls
\* with the same plaintext and keys differ in nonce and in ciphertext.
NonceFreshness ==
    \A i, j \in Calls :
        (/\ i # j
         /\ encLog[i].mySecretKey = encLog[j].mySecretKey
         /\ encLog[i].theirPublicKey = encLog[j].theirPublicKey)
            => /\ encLog[i].result.nonce # encLog[j].result.nonce
               /\ (encLog[i].message = encLog[j].message
                      => encLog[i].result.ciphertext # encLog[j].result.ciphertext)

\* C7 witness: the same plaintext was encrypted twice under the same keys
NonceFreshnessWitness ==
    \E i, j \in Calls :
        /\ i # j
        /\ encLog[i].message = encLog[j].message
        /\ encLog[i].mySecretKey = encLog[j].mySecretKey
        /\ encLog[i].theirPublicKey = encLog[j].theirPublicKey
        /\ encLog[i].result.nonce # encLog[j].result.nonce

\* C10: decryptMessage is total.  Whatever the arguments, the call returns
\* null or the whole plaintext of a message that encryptMessage returned;
\* it never throws and never returns part of a plaintext.
DecryptTotal ==
    lastDec # NoCall =>
        \/ lastDec.result = Null
        \/ \E i \in Calls :
              /\ lastDec.encryptedMsg = encLog[i].result
              /\ lastDec.result = Ok(encLog[i].message)

\* C10 witness: a box that authenticates but holds bytes that are not
\* UTF-8 was opened with the keys it was sealed for, and the call
\* returned null
DecryptTotalWitness ==
    /\ lastDec # NoCall
    /\ lastDec.encryptedMsg \in RawBoxes
    /\ decryptTry(lastDec.encryptedMsg, lastDec.mySecretKey,
                  lastDec.theirPublicKey) = Throw
    /\ \E y \in Pairs :
          /\ OpenedWith(y, 1)
          /\ naclBoxOpen(lastDec.encryptedMsg.ciphertext.bytes,
                         lastDec.encryptedMsg.nonce.bytes,
                         keyPairs[1].publicKey.bytes,
                         keyPairs[y].secretKey.bytes) = Ok(BadUtf8)
    /\ lastDec.result = Null

-----------------------------------------------------------------------------
(* Properties of IdentityVault *)

Locks == 1..Len(lockLog)

\* the observed unlock call was given the i-th logged lock result
UnlockedVault(i) ==
    /\ lastUnlock # NoCall
    /\ lastUnlock.vaultString = lockLog[i].result

\* C2: vault round trip.  unlock(lock(S, X), X) resolves to exactly S.
VaultRoundTrip ==
    \A i \in Locks :
        (UnlockedVault(i) /\ lastUnlock.pin = lockLog[i].pin)
            => lastUnlock.result = Ok(lockLog[i].secretData)

\* C3: wrong-PIN rejection.  unlock(lock(S, X), Y) with Y different from X
\* resolves to null: not to S and not to any other string.
WrongPinRejected ==
    \A i \in Locks :
        (UnlockedVault(i) /\ lastUnlock.pin # lockLog[i].pin)
            => lastUnlock.result = Null

\* C3 witness: a package locked under one PIN was tried with another and
\* the call resolved to null
WrongPinRejectedWitness ==
    \E i \in Locks :
        /\ UnlockedVault(i)
        /\ lastUnlock.pin # lockLog[i].pin
        /\ lockLog[i].secretData # <<>>
        /\ lastUnlock.result = Null

\* C8: vault non-determinism.  Two lock(S, X) calls with the same S and X
\* give packages that differ in salt, in iv and in data, and each of the
\* two unlocks to S with X.
VaultNonDeterminism ==
    \A i, j \in Locks :
        (/\ i # j
         /\ lockLog[i].secretData = lockLog[j].secretData
         /\ lockLog[i].pin = lockLog[j].pin)
            => /\ lockLog[i].result.value.salt # lockLog[j].result.value.salt
               /\ lockLog[i].result.value.iv # lockLog[j].result.value.iv
               /\ lockLog[i].result.value.data # lockLog[j].result.value.data
               /\ (UnlockedVault(i) /\ lastUnlock.pin = lockLog[i].pin)
                      => lastUnlock.result = Ok(lockLog[i].secretData)

\* C9: uniform unlock failure.  unlock resolves to null, and does not
\* reject, for a string that is no JSON, for JSON that is no object or
\* lacks salt, iv or data, for a package with a bit of its salt, iv or
\* data inverted, and for an intact package with another PIN.
UnlockFailsUniformly ==
    lastUnlock # NoCall =>
        /\ lastUnlock.vaultString \in NoPackage => lastUnlock.result = Null
        /\ \A i \in Locks :
              /\ lastUnlock.vaultString \in Lacking(lockLog[i].result)
                     => lastUnlock.result = Null
              /\ lastUnlock.vaultString \in Altered(lockLog[i].result)
                     => lastUnlock.result = Null
              /\ (/\ lastUnlock.vaultString = lockLog[i].result
                  /\ lastUnlock.pin # lockLog[i].pin)
                     => lastUnlock.result = Null

\* C9 witness: a package whose data had a bit inverted was tried with the
\* PIN it was locked with, and the call resolved to null
UnlockFailsUniformlyWitness ==
    \E i \in Locks :
        /\ lastUnlock # NoCall
        /\ lastUnlock.vaultString \in Altered(lockLog[i].result)
        /\ lastUnlock.vaultString.value.salt = lockLog[i].result.value.salt
        /\ lastUnlock.vaultString.value.iv = lockLog[i].result.value.iv
        /\ lastUnlock.pin = lockLog[i].pin
        /\ lastUnlock.result = Null

-----------------------------------------------------------------------------
(* Further properties of crypto.ts and IdentityVault *)

\* C11: failure is distinguishable from the empty plaintext.  An encrypted
\* empty string decrypts, with the right keys, to "" and a locked empty
\* string unlocks, with the right PIN, to ""; a call that does not return
\* the plaintext returns null; and "" is returned only for a message or a
\* package that verified, never for a failed decryption.
EmptyIsNotFailure ==
    /\ \A i \in Calls : \A a, b \in Pairs :
          (/\ encLog[i].message = <<>>
           /\ SentBy(i, a, b) /\ OpenedMsg(i) /\ OpenedWith(b, a))
              => lastDec.result = Ok(<<>>)
    /\ (lastDec # NoCall /\ lastDec.result # Null) =>
          /\ lastDec.result.kind = "ok"
          /\ decryptTry(lastDec.encryptedMsg, lastDec.mySecretKey,
                        lastDec.theirPublicKey) = lastDec.result
    /\ \A i \in Locks :
          (/\ lockLog[i].secretData = <<>>
           /\ UnlockedVault(i) /\ lastUnlock.pin = lockLog[i].pin)
              => lastUnlock.result = Ok(<<>>)
    /\ (lastUnlock # NoCall /\ lastUnlock.result # Null) =>
          /\ lastUnlock.result.kind = "ok"
          /\ \E i \in Locks :
                UnlockedVault(i) /\ lastUnlock.pin = lockLog[i].pin

\* C11 witness: an empty string was locked and then unlocked with the
\* same PIN, and the call resolved to "" and not to null
EmptyIsNotFailureWitness ==
    \E i \in Locks :
        /\ lockLog[i].secretData = <<>>
        /\ UnlockedVault(i) /\ lastUnlock.pin = lockLog[i].pin
        /\ lastUnlock.result = Ok(<<>>)
        /\ lastUnlock.result # Null

\* the same case for decryptMessage: an encrypted empty string was
\* decrypted by its recipient to ""
EmptyMessageDecrypted ==
    \E i \in Calls : \E a, b \in Pairs :
        /\ a # b
        /\ encLog[i].message = <<>>
        /\ SentBy(i, a, b) /\ OpenedMsg(i) /\ OpenedWith(b, a)
        /\ lastDec.result = Ok(<<>>)

\* the decoded length of a base64 argument, -1 when it does not decode
DecodedLength(s) ==
    IF decodeBase64(s) = Throw THEN -1 ELSE decodeBase64(s).val.len

\* C12: encryptMessage fails loudly on malformed keys.  A call whose
\* mySecretKey or theirPublicKey does not decode to exactly 32 bytes
\* returns no EncryptedMessage: every message returned was sealed with
\* the two 32-byte keys exactly as passed.
MalformedKeysThrow ==
    \A i \in Calls :
        /\ DecodedLength(encLog[i].mySecretKey) = 32
        /\ DecodedLength(encLog[i].theirPublicKey) = 32
        /\ encLog[i].result.ciphertext.bytes.tag = "box"
        /\ encLog[i].result.ciphertext.bytes.key =
               SharedKey(encLog[i].theirPublicKey.bytes,
                         encLog[i].mySecretKey.bytes)

\* C12 witness: encryptMessage was called while no key pair existed, so
\* with keys that are no base64 or 31 bytes long; it drew its nonce and
\* returned nothing
MalformedKeysThrowWitness ==
    /\ keyPairs = <<>>
    /\ rng[BoxNonceLength] > 0
    /\ encLog = <<>>

\* the number of bytes TextEncoder produces for s, counted per code unit
RECURSIVE Utf8Length(_, _)
Utf8Length(s, i) ==
    IF i > Len(s) THEN 0
    ELSE IF IsHigh(s[i]) /\ i < Len(s) /\ IsLow(s[i + 1]) THEN
        4 + Utf8Length(s, i + 2)
    ELSE IF s[i] < 128 THEN 1 + Utf8Length(s, i + 1)
    ELSE IF s[i] < 2048 THEN 2 + Utf8Length(s, i + 1)
    ELSE 3 + Utf8Length(s, i + 1)

AuthorIsSender ==
    \A i \in Calls :
        /\ DecodedLength(encLog[i].result.nonce) = 24
        /\ \A a \in Pairs :
              encLog[i].mySecretKey = keyPairs[a].secretKey
                  => encLog[i].result.authorPublicKey = keyPairs[a].publicKey

\* C18 witness: K has encrypted to another key pair and the message
\* carries K's public key, which is not the recipient's
AuthorIsSenderWitness ==
    \E i \in Calls : \E a, b \in Pairs :
        /\ a # b
        /\ SentBy(i, a, b)
        /\ encLog[i].result.authorPublicKey = keyPairs[a].publicKey
        /\ encLog[i].result.authorPublicKey # encLog[i].theirPublicKey

-----------------------------------------------------------------------------
(* Properties of the secure-chat page *)

\* the page was loaded with a vault in the slot: it shows the unlock form
Locked == view # "BOOT" /\ ~isRegistering

\* the rows of the users table this client's registrations inserted
OwnRows == {i \in 1..Len(usersTable) : usersTable[i] \notin ForeignRows}

\* C14: vault state machine.  In a page loaded with only the blob, the
\* identity comes into memory by nothing but an unlock with the PIN the
\* blob was locked with: as long as only other PINs were tried, myKeys is
\* unset, the view is AUTH and the stored blob is the one that was locked.
VaultStateMachine ==
    Locked =>
        /\ registered # None
        /\ localStorage.wa_vault = registered.vault
        /\ registered.pin \notin tried =>
              /\ myKeys = Null
              /\ myUsername = <<>>
              /\ view = "AUTH"

\* C14 witness: unlock has run with a PIN, not the one of the blob, and
\* the page shows Incorrect PIN with no identity set
VaultStateMachineWitness ==
    /\ Locked
    /\ tried # {}
    /\ registered.pin \notin tried
    /\ statusMsg = "Incorrect PIN"
    /\ auth = Idle
    /\ myKeys = Null /\ view = "AUTH"

\* C16: single vault slot.  localStorage has the one key 'wa_vault',
\* which is absent or holds a whole lock() output: salt, iv and data of
\* one lock call, unlocking to the identity that was locked.
SingleVaultSlot ==
    /\ DOMAIN localStorage = {"wa_vault"}
    /\ localStorage.wa_vault # Null =>
          LET pkg == JsonParse(localStorage.wa_vault)
          IN  /\ pkg # Throw
              /\ pkg.val.type = "object"
              /\ pkg.val.salt.type = "array"
              /\ pkg.val.salt.bytes.len = SaltLength
              /\ pkg.val.iv.type = "array"
              /\ pkg.val.iv.bytes.len = IvLength
              /\ pkg.val.data.type = "array"
              /\ pkg.val.data.bytes.tag = "gcm"
              /\ pkg.val.data.bytes.iv = pkg.val.iv.bytes
              /\ pkg.val.data.bytes.key.salt = pkg.val.salt.bytes
              /\ registered # None
              /\ unlock(localStorage.wa_vault, registered.pin) =
                     Ok(IdentityJson(registered.keys, registered.username))

\* C16 witness: a registration has written the slot and the page went on
\* to MAIN
SingleVaultSlotWitness ==
    /\ localStorage.wa_vault # Null
    /\ view = "MAIN"
    /\ myKeys # Null

\* C19: registration consistency.  Whenever the users table holds a row of
\* this client, the slot holds a package that unlocks with a PIN to a
\* record with the row's public_key and username.
RegistrationConsistency ==
    \A i \in OwnRows :
        /\ localStorage.wa_vault # Null
        /\ \E digits \in Pins :
              LET json == unlock(localStorage.wa_vault, digits)
              IN  /\ json # Null
                  /\ ParseIdentity(json.val) # Throw
                  /\ ParseIdentity(json.val).val.publicKey =
                         usersTable[i].public_key
                  /\ ParseIdentity(json.val).val.username =
                         usersTable[i].username

\* C20: login restores the identity.  In a page loaded with the vault of
\* a registration, once unlock has run with the registration's PIN,
\* myKeys is the pair generated at registration and myUsername the
\* registered name, and when handleAuth has finished the view is MAIN.
LoginRestores ==
    (Locked /\ registered # None /\ registered.pin \in tried) =>
        /\ myKeys = registered.keys
        /\ myUsername = registered.username
        /\ auth # Idle => auth.pc = "fetchUsers" /\ view = "AUTH"
        /\ auth = Idle => view = "MAIN"

\* C20 witness: a name that was trimmed was registered, and a later page
\* load unlocked it, after a wrong PIN, and reached MAIN
LoginRestoresWitness ==
    /\ Locked
    /\ registered # None
    /\ registered.pin \in tried
    /\ tried # {registered.pin}
    /\ registered.username = <<233>>
    /\ myKeys = registered.keys
    /\ view = "MAIN"

\* the secret keys generateKeyPair has returned to handleAuth
SecretKeys ==
    {encodeBase64(RandomBytes(BoxKeyLength, k)) : k \in 1..rng[BoxKeyLength]}

\* text s contains text t
Contains(s, t) ==
    \E i \in 0..(Len(s) - Len(t)) : SubSeq(s, i + 1, i + Len(t)) = t

\* a text that shows neither a PIN nor the characters of a secret key
CleanText(s) ==
    /\ \A digits \in Pins : ~Contains(s, digits)
    /\ \A k \in SecretKeys : ~Contains(s, Base64Text(k))

\* bytes that show no secret key: a ciphertext, a public key, or random
\* bytes that are not a secret key
CleanBytes(b) ==
    \/ b.tag \in {"box", "gcm", "pk"}
    \/ b.tag = "rnd" /\ encodeBase64(b) \notin SecretKeys

\* the users rows this client has sent: in flight or in the table
UsersRowsSent ==
    {usersTable[i] : i \in OwnRows}
        \cup (IF auth.pc = "insert"
              THEN {UserRow(auth.username, auth.keys.publicKey)} ELSE {})

\* the messages rows this client has sent: in flight or in the table
MessageRowsSent ==
    sending \cup {messagesTable[i] : i \in 1..Len(messagesTable) \ ReceivedIds}

\* C13: secret key confinement.  No users row and no messages row sent to
\* the backend and no localStorage value shows a secret key or a PIN: the
\* key in a users row is a public key, a messages row carries names, a
\* nonce and a sealed box, and the slot holds salt, iv and AES-GCM output.
SecretConfinement ==
    /\ \A row \in UsersRowsSent :
          /\ DOMAIN row = {"username", "public_key"}
          /\ CleanText(row.username)
          /\ row.public_key.bytes.tag = "pk"
    /\ \A row \in MessageRowsSent :
          /\ DOMAIN row = {"sender_username", "receiver_username", "nonce",
                           "ciphertext"}
          /\ CleanText(row.sender_username)
          /\ CleanText(row.receiver_username)
          /\ CleanBytes(row.nonce.bytes)
          /\ row.ciphertext.bytes.tag = "box"
    /\ localStorage.wa_vault # Null =>
          LET pkg == localStorage.wa_vault.value
          IN  /\ CleanBytes(pkg.salt.bytes)
              /\ CleanBytes(pkg.iv.bytes)
              /\ pkg.data.bytes.tag = "gcm"

\* C13 witness: the client has registered, stored its vault and sent a
\* message to the peer, and the vault's plaintext does hold the secret key
SecretConfinementWitness ==
    /\ OwnRows # {}
    /\ localStorage.wa_vault # Null
    /\ \E k \in SecretKeys :
          Contains(unlock(localStorage.wa_vault, registered.pin).val,
                   Base64Text(k))
    /\ \E i \in 1..Len(messagesTable) :
          /\ messagesTable[i].sender_username = myUsername
          /\ messagesTable[i].receiver_username = PeerRow.username

\* what call c of IdentityVault gives when it runs alone
Alone(c) ==
    IF calls[c].op = "lock"
    THEN lock(calls[c].secretData, calls[c].pin, calls[c].salt, calls[c].iv)
    ELSE unlock(calls[c].vaultString, calls[c].pin)

\* C15: atomicity and independence of the asynchronous vault operations.
\* However the awaits of concurrent lock and unlock calls interleave, a
\* call resolves to what it gives when run alone, it works with its own
\* salt, iv and derived key, it shows no result before it resolves, and
\* a failing call leaves nothing behind: only resolved lock calls have
\* returned a package.
AsyncIndependence ==
    /\ \A c \in 1..Len(calls) :
          /\ calls[c].pc # "done" => calls[c].result = NoCall
          /\ calls[c].pc = "done" => calls[c].result = Alone(c)
          /\ calls[c].pc \in {"encrypt", "decrypt"} =>
                calls[c].key = deriveKey(calls[c].pin, calls[c].salt)
          /\ \A d \in 1..Len(calls) :
                (c # d /\ calls[c].op = "lock" /\ calls[d].op = "lock") =>
                    calls[c].salt # calls[d].salt /\ calls[c].iv # calls[d].iv
    /\ Len(lockLog) =
           Cardinality({c \in 1..Len(calls) :
                           calls[c].op = "lock" /\ calls[c].pc = "done"})

\* C15 witness: while a lock call awaited its key, an unlock call started
\* after it, on a stored package and with another PIN than the pending
\* lock's, ran to its end and resolved to the secret
AsyncIndependenceWitness ==
    \E c, d \in 1..Len(calls) :
        /\ c < d
        /\ calls[c].op = "lock" /\ calls[c].pc = "deriveKey"
        /\ calls[d].op = "unlock" /\ calls[d].pc = "done"
        /\ calls[d].pin # calls[c].pin
        /\ calls[d].result.kind = "ok"

\* the calls of IdentityVault that have derived their key
Keyed == {c \in 1..Len(calls) : calls[c].key # Undefined}

\* C23: same key derivation on both sides.  Every key lock or unlock has
\* derived is the PBKDF2 key of the call's PIN and salt with SHA-256,
\* 256 bits and 100000 iterations, so an unlock call with the PIN and the
\* stored salt of a lock call works with the key that lock call used.
SameKeyDerivation ==
    /\ \A c \in Keyed :
          /\ calls[c].key.tag = "aes"
          /\ calls[c].key.password = TextEncode(calls[c].pin)
          /\ calls[c].key.salt = calls[c].salt
          /\ calls[c].key.hash = "SHA-256"
          /\ calls[c].key.bits = 256
          /\ calls[c].key.iterations = 100000
          /\ calls[c].key.iterations >= 100000
    /\ \A c, d \in Keyed :
          (/\ calls[c].op = "lock" /\ calls[d].op = "unlock"
           /\ calls[d].pin = calls[c].pin
           /\ calls[d].salt = calls[c].salt)
              => calls[d].key = calls[c].key

\* C23 witness: a lock call has returned its package and an unlock call
\* on that package, with the same PIN, has derived the key lock used
SameKeyDerivationWitness ==
    \E c, d \in Keyed :
        /\ calls[c].op = "lock" /\ calls[c].pc = "done"
        /\ calls[d].op = "unlock"
        /\ calls[d].vaultString = calls[c].result
        /\ calls[d].pin = calls[c].pin
        /\ calls[d].key = calls[c].key
        /\ calls[d].key = calls[c].result.value.data.bytes.key

\* C24: identity precedes the main views.  When the view is MAIN or
\* CHAT, myKeys is set and myUsername is not empty.
IdentityBeforeMain ==
    view \in {"MAIN", "CHAT"} => myKeys # Null /\ myUsername # <<>>

\* C24 witness: the chat view is open, reached by an unlock and not by a
\* registration in this page load
IdentityBeforeMainWitness ==
    /\ view = "CHAT"
    /\ ~isRegistering
    /\ myKeys # Null /\ myUsername # <<>>

\* what a handleAuth call that stops before the vault leaves as it was
NoIdentityWritten ==
    /\ UNCHANGED <<localStorage, myKeys, myUsername, view, registered>>
    /\ localStorage.wa_vault = Null
    /\ myKeys = Null /\ myUsername = <<>>
    /\ view = "AUTH"

\* C25: a failed directory insert leaves no local identity.  A step in
\* which the users insert of a registration resolves without adding the
\* row ends the handler with the error as statusMsg; 'wa_vault' is not
\* written, myKeys and myUsername stay unset and the view stays AUTH.
FailedInsertLeavesNothing ==
    [][(/\ auth.pc = "insert" /\ auth' # auth
        /\ usersTable' = usersTable /\ loads' = loads)
          => /\ auth' = Idle
             /\ statusMsg' \in {"duplicate key value", "Failed to fetch"}
             /\ NoIdentityWritten]_vars

\* C25 witness: a registration was refused for a taken name, after a
\* Reset on a device that had registered that name
FailedInsertLeavesNothingWitness ==
    /\ statusMsg = "duplicate key value"
    /\ auth = Idle
    /\ loads > 1
    /\ OwnRows # {}
    /\ localStorage.wa_vault = Null
    /\ myKeys = Null /\ view = "AUTH"

\* C26: registration input validation.  A handleAuth step of the
\* registration form with a PIN of fewer than 4 characters or a name that
\* trims to nothing sets statusMsg and changes nothing else: no key pair
\* is drawn, no request starts, nothing is stored.
ValidationFrame ==
    [][(/\ HandleAuth /\ isRegistering
        /\ (Len(pinInput) < 4 \/ Trim(username) = <<>>))
          => /\ statusMsg' = "Enter a valid name and 4+ digit PIN"
             /\ UNCHANGED <<rng, auth, usersTable, localStorage, view, myKeys,
                            myUsername, isRegistering, pinInput, username,
                            users, registered, chatVars>>]_vars

\* C26 witness: the form was submitted with a name and no PIN, and with
\* a PIN and a blank name; the page shows the message and nothing else
\* has happened
ValidationFrameWitness ==
    /\ statusMsg = "Enter a valid name and 4+ digit PIN"
    /\ \/ pinInput = <<>> /\ Trim(username) # <<>>
       \/ Len(pinInput) = 4 /\ username = <<32>>
    /\ rng[BoxKeyLength] = 0
    /\ auth = Idle
    /\ usersTable = <<PeerRow>>
    /\ localStorage.wa_vault = Null
    /\ view = "AUTH" /\ myKeys = Null

\* a row of four fields whose nonce is a fresh 24-byte value and whose
\* ciphertext is a sealed box under that nonce
SealedRow(row) ==
    /\ DOMAIN row = {"sender_username", "receiver_username", "nonce",
                     "ciphertext"}
    /\ row.nonce.text = "base64" /\ row.ciphertext.text = "base64"
    /\ row.nonce.bytes.tag = "rnd" /\ row.nonce.bytes.len = BoxNonceLength
    /\ row.ciphertext.bytes.tag = "box"
    /\ row.ciphertext.bytes.nonce = row.nonce.bytes
    /\ row.ciphertext.bytes.flip = 0

\* C21: only ciphertext reaches the transport.  Every messages row in
\* flight or in the table has the four fields sender_username,
\* receiver_username, nonce and ciphertext; the row handleSend sends
\* carries my name, the peer's name and the nonce and the box of inputMsg
\* sealed under myKeys.secretKey and selectedPeer.public_key; a row
\* enters the table only from an insert in flight.
OnlyCiphertextSent ==
    [][/\ \A row \in MessageRowsSent' : SealedRow(row)
       /\ HandleSend =>
             \A row \in sending' \ sending :
                /\ row.sender_username = myUsername
                /\ row.receiver_username = selectedPeer.username
                /\ row.nonce.bytes \notin
                       {r.nonce.bytes : r \in MessageRowsSent}
                /\ row.ciphertext.bytes.m = decodeUTF8(inputMsg).val
                /\ row.ciphertext.bytes.key =
                       SharedKey(decodeBase64(selectedPeer.public_key).val,
                                 decodeBase64(myKeys.secretKey).val)
                /\ row.ciphertext.bytes.len = Len(decodeUTF8(inputMsg).val)
                                                  + BoxOverhead
       /\ \A i \in 1..Len(messagesTable') :
             i > Len(messagesTable) => messagesTable'[i] \in sending]_vars

\* C21 witness: a message typed into the field has been sent to the peer
\* and its row is in the table
OnlyCiphertextSentWitness ==
    /\ view = "CHAT"
    /\ \E i \in 1..Len(messagesTable) :
          /\ messagesTable[i].sender_username = myUsername
          /\ messagesTable[i].receiver_username = selectedPeer.username
          /\ messagesTable[i].ciphertext.bytes.m = <<97, 195, 169>>

\* C22: no self-decryption in the application.  In the chat view the
\* bubble of every message whose sender_username is myUsername shows the
\* fixed placeholder and calls decryptMessage for nothing; a bubble that
\* calls decryptMessage belongs to a message of another sender and passes
\* the message's encryptedContent, myKeys.secretKey and
\* selectedPeer.public_key.
NoSelfDecryption ==
    view = "CHAT" =>
        \A k \in 1..Len(messages) :
            /\ messages[k].sender_username = myUsername =>
                  /\ Bubbles[k].decrypt = NoCall
                  /\ Bubbles[k].content = [label |-> "Encrypted"]
            /\ Bubbles[k].decrypt # NoCall =>
                  /\ messages[k].sender_username # myUsername
                  /\ Bubbles[k].decrypt.encryptedMsg =
                         messages[k].encryptedContent
                  /\ Bubbles[k].decrypt.mySecretKey = myKeys.secretKey
                  /\ Bubbles[k].decrypt.theirPublicKey =
                         selectedPeer.public_key

\* C22 witness: the open chat shows a message I sent, which my own keys
\* would open, and a message of the peer, which is decrypted
NoSelfDecryptionWitness ==
    /\ view = "CHAT"
    /\ \E k \in 1..Len(messages) :
          /\ messages[k].sender_username = myUsername
          /\ decryptMessage(messages[k].encryptedContent, myKeys.secretKey,
                            selectedPeer.public_key) = Ok(<<97, 233>>)
    /\ \E k \in 1..Len(messages) :
          /\ messages[k].sender_username = selectedPeer.username
          /\ Bubbles[k].content = Ok(PeerText)

\* entry m of the list belongs to the conversation of me and the peer
Between(m, me, peerUsername) ==
    \/ m.sender_username = me /\ m.receiver_username = peerUsername
    \/ m.sender_username = peerUsername /\ m.receiver_username = me

\* C27: conversation scoping under realtime delivery.  While the CHAT
\* view is open with selected peer Q, every entry of messages has
\* myUsername and Q.username as its sender and receiver, in one order or
\* the other, so that the key an incoming entry is opened with,
\* Q.public_key, is the key of its sender in the directory.
ConversationScoping ==
    view = "CHAT" =>
        \A k \in 1..Len(messages) :
            /\ Between(messages[k], myUsername, selectedPeer.username)
            /\ Bubbles[k].decrypt # NoCall =>
                  \E u \in 1..Len(usersTable) :
                      /\ usersTable[u].username = messages[k].sender_username
                      /\ usersTable[u].public_key =
                             Bubbles[k].decrypt.theirPublicKey

\* C28: stale history load.  When the last loadMessages call in flight
\* resolves with rows while a chat is open, after openChat(P1), the
\* return to MAIN and openChat(P2), the list it leaves holds only entries
\* of the conversation with the selected peer P2, whichever call
\* resolved last.
StaleHistoryLoad ==
    [][(/\ LoadMessagesResolves
        /\ loading' = {}
        /\ messages' # messages
        /\ view = "CHAT")
          => \A k \in 1..Len(messages') :
                Between(messages'[k], myUsername, selectedPeer.username)]_vars

\* C29: no duplicate messages.  Whatever the order of realtime INSERT
\* events, repeated ones included, and of loadMessages completions, no
\* two entries of messages have the same id.
NoDuplicateMessages ==
    \A j, k \in 1..Len(messages) : messages[j].id = messages[k].id => j = k

\* C29 witness: the list holds a row the realtime callback appended and
\* can be told about once more, next to a row of the same conversation,
\* after a loadMessages call has resolved
NoDuplicateMessagesWitness ==
    /\ view = "CHAT"
    /\ loading = {}
    /\ Len(messages) = 2
    /\ \E k \in 1..Len(messages) : messages[k].id > channel.since
    /\ ENABLED RealtimeInsert

\* the step runs the sendMessage call that sendLink deferred as timer i
DeferredSendRuns(i) ==
    /\ TimerFires
    /\ timers[i].fn = "sendMessage"
    /\ \/ timers' = Without(timers, i)
       \/ /\ Len(timers') = Len(timers)
          /\ SubSeq(timers', 1, Len(timers) - 1) = Without(timers, i)
          /\ timers'[Len(timers)].fn = "read"

\* C30: link sharing in ChatPage.  sendLink with a linkInput that is not
\* blank closes the link dialog and clears linkInput; when it was called
\* with the message field empty and no file attached, the sendMessage call
\* it defers appends to the list one message whose content is the link,
\* of type 'link' when the link matches http:// or https://.
LinkSharing ==
    [][/\ (SendLink /\ Trim(linkInput) # <<>>) =>
              ~showLinkModal' /\ linkInput' = <<>>
       /\ \A i \in 1..Len(timers) :
             (/\ DeferredSendRuns(i)
              /\ Trim(timers[i].inputText) = <<>>
              /\ timers[i].currentFile = Null)
                => /\ Len(pageMessages') = Len(pageMessages) + 1
                   /\ LET m == pageMessages'[Len(pageMessages')]
                      IN  /\ m.content = Trim(timers[i].linkInput)
                          /\ m.type = IF IsLink(m.content) THEN "link"
                                      ELSE "text"]_vars

====
